---- MODULE Spec2Model ----
(***************************************************************************)
(* Model of harmony's command dispatcher (CommandClient.processMessage)    *)
(* and of Interaction: the responder (respond and its sugar), the          *)
(* follow-up methods (send, edit.., delete..) and the lookup option(name). *)
(*                                                                         *)
(* Values of the program are modelled as follows.                          *)
(*   - A JavaScript string is a sequence of one-character strings.         *)
(*   - An optional field of type string | string[] is a record             *)
(*     [t, v]: t is "undefined", "string" or "array" and v is the list of  *)
(*     strings it holds (one string for t = "string").                     *)
(*   - A boolean-or-undefined flag is one of "undefined", "true",          *)
(*     "false"; a hook's return value is a token of the same kind.         *)
(*   - msg.guild is a guild id, or 0 for undefined (a direct message).     *)
(*                                                                         *)
(* processMessage is modelled one step per stage.  The registries and the  *)
(* configuration are read-only during dispatch and every field of the      *)
(* command, of its category and of the configuration is read by exactly    *)
(* one stage, so each stage draws the fields it reads when it reads them   *)
(* and records them in rd, the reads of the stage that ran last.           *)
(***************************************************************************)
EXTENDS Integers, Sequences, FiniteSets, TLC

\* ---------------------------------------------------------------- bounds

\* Number of commandError events after which no further message is received.
MaxErrors == 2
\* Number of calls made on one Interaction.
MaxCalls == 3

\* ---------------------------------------------------------------- values

Undefined == [t |-> "undefined", v |-> <<>>]
Str(s) == [t |-> "string", v |-> <<s>>]
Arr(l) == [t |-> "array", v |-> l]

Flags == {"undefined", "true", "false"}

UserIds == {1, 2}
ChannelIds == {1}
\* 0 stands for msg.guild === undefined
GuildOpts == {0, 1}

BAN == <<"B", "A", "N">>
KICK == <<"K", "I", "C", "K">>

\* ---------------------------------------------------------------- helpers

RECURSIVE Includes(_, _)
\* Array.prototype.includes
Includes(list, x) ==
  IF list = <<>> THEN FALSE
  ELSE IF Head(list) = x THEN TRUE ELSE Includes(Tail(list), x)

RECURSIVE Unique(_)
\* [...new Set(list)]: duplicates removed, first occurrences kept in order
Unique(list) ==
  IF list = <<>> THEN <<>>
  ELSE LET init == Unique(SubSeq(list, 1, Len(list) - 1))
           last == list[Len(list)]
       IN  IF Includes(init, last) THEN init ELSE Append(init, last)

\* String.prototype.startsWith
StartsWith(s, p) == Len(p) <= Len(s) /\ SubSeq(s, 1, Len(p)) = p

RECURSIVE Filter(_, _)
\* prefix.filter((v) => content.startsWith(v))
Filter(list, content) ==
  IF list = <<>> THEN <<>>
  ELSE IF StartsWith(content, Head(list))
       THEN <<Head(list)>> \o Filter(Tail(list), content)
       ELSE Filter(Tail(list), content)

RECURSIVE InsertByLength(_, _)
InsertByLength(sorted, x) ==
  IF sorted = <<>> THEN <<x>>
  ELSE IF Len(Head(sorted)) >= Len(x)
       THEN <<Head(sorted)>> \o InsertByLength(Tail(sorted), x)
       ELSE <<x>> \o sorted

RECURSIVE SortByLengthDesc(_)
\* .sort((b, a) => a.length - b.length): stable, longest first
SortByLengthDesc(list) ==
  IF list = <<>> THEN <<>>
  ELSE InsertByLength(SortByLengthDesc(SubSeq(list, 1, Len(list) - 1)),
                      list[Len(list)])

\* string | string[] appended to an array: [...prefix, x] or [...prefix, ...x]
Spread(val) == val.v

Throw == [t |-> "throw", v |-> <<>>]

\* ------------------------------------------------- the world of the model

\* this.user.mention and this.user.nickMention of the bot user
mention == <<"<", "@", "9", ">">>
nickMention == <<"<", "@", "!", "9", ">">>

\* Values of CommandClientOptions.prefix
GlobalPrefixes == {Str(<<"!">>), Arr(<< <<"!">>, <<"!", "!">> >>)}
\* Values a getUserPrefix / getGuildPrefix provider resolves to, or Throw
ProviderResults ==
  {Undefined, Str(<<"?">>), Str(<<"<">>), Arr(<< <<"!", "!">>, <<"!">> >>),
   Throw}

\* msg.content
Contents ==
  { <<"!", "p">>, <<"!", "!", "p">>, <<"!", "p", " ", "a">>, <<"p">>,
    <<"!", "n">>, <<"!">>, <<"?", "p">>, <<"!", " ", "p">>,
    mention \o <<"p">>, nickMention \o <<"p">> }

\* Names registered in this.commands
Registry == { <<"p">> }

\* Results of a blacklist predicate: a boolean, or the predicate throws
PredicateResults == {"false", "true", "throw"}

\* ---------------------------------------------------------------- state

VARIABLES
  pc,             \* position of processMessage for the current message
  msg,            \* the message: author id, channel id, guild id (0: none)
  prefix,         \* local `prefix`: the candidate list built so far
  parsed,         \* local `parsed`: name and args of the command
  category,       \* local `category`: "undefined" or "category"
  allPermissions, \* local `allPermissions`
  rd,             \* the inputs read by the stage that ran last
  queries,        \* provider callbacks invoked for the message, in order
  events,         \* events emitted for the message, in order
  hooks,          \* hooks of the command invoked for the message, in order
  outcome,        \* processMessage: none, pending, resolved or rejected
  errorCount,     \* commandError events emitted so far, over all messages
  allowDMs,       \* CommandClient.allowDMs while the message is processed
  trace,          \* the steps of processMessage taken for the message, in order
  tasks,          \* two processMessage tasks running at once: their locals
  carried,        \* per context: the events and hook calls that carried it
  client,         \* Client.token, Client.intents and Client.rest.token
  connection,     \* the last call of Client.connect and its outcome
  responded,      \* Interaction.responded
  posts,          \* interaction-callback POSTs issued, in order
  call,           \* the call on the Interaction that is awaiting its request
  awaiting,       \* respond() calls started without waiting for one another
  results,        \* completed calls on the Interaction, in order
  webhook,        \* follow-up (webhook) requests issued, in order
  data,           \* Interaction.data: its top-level options, or no data
  resolved,       \* Interaction.resolved: the tables of users, roles, channels
  lookup          \* the last call of option(name) and what it returned

pvars == <<pc, msg, prefix, parsed, category, allPermissions, rd, queries,
           events, hooks, outcome, errorCount, allowDMs, trace>>
kvars == <<client, connection>>
tvars == <<tasks, carried>>
cvars == <<pvars, kvars, tvars>>
ovars == <<awaiting>>
ivars == <<responded, posts, call, results, webhook, data, resolved, lookup>>
vars == <<pc, msg, prefix, parsed, category, allPermissions, rd, queries,
          events, hooks, outcome, errorCount, allowDMs, trace, tasks,
          carried, client, connection,
          responded, posts, call, awaiting, results, webhook, data, resolved,
          lookup>>

NoMsg == [author |-> 0, channel |-> 0, guild |-> 0]
NoParsed == [name |-> <<>>, args |-> <<>>]
NoRead == [stage |-> "none"]
NoCall == [op |-> "none"]

\* Interaction.data === undefined; data.options === undefined
NoData == [defined |-> FALSE, hasOptions |-> FALSE, options |-> <<>>]
DataNoOptions == [defined |-> TRUE, hasOptions |-> FALSE, options |-> <<>>]
\* Interaction.data with the top-level options opts
Data(opts) == [defined |-> TRUE, hasOptions |-> TRUE, options |-> opts]
\* A Dict is the set of its <<key, entry>> pairs, one pair for a key
NoResolved == [users |-> {}, roles |-> {}, channels |-> {}]
NoLookup == [name |-> "", result |-> [t |-> "none", v |-> ""]]

\* line 111: options.allowDMs === undefined ? true : options.allowDMs
AllowDMs(option) == IF option = "undefined" THEN TRUE ELSE option = "true"

\* connect() has not been called
NoConnection == [token |-> "undefined", intents |-> "undefined",
                 stored |-> "undefined", storedIntents |-> "undefined",
                 outcome |-> "none"]

\* client.ts lines 160-161, 201-209: a Client constructed with options.token
\* (or the token of the environment) t and options.intents i
InitClient(t, i) ==
  /\ client = [token |-> t, intents |-> i, restToken |-> t]
  /\ connection = NoConnection

\* The messageCreate listener (lines 122-125) starts one processMessage per
\* message and does not wait for the previous one: two of them
Tasks == {1, 2}

\* the locals of a processMessage that has not started
NoTask == [pc |-> "idle", guild |-> FALSE, outcome |-> "none", inputs |-> <<>>]

\* A CommandClient after construction: no message has been received
InitCommandClient ==
  /\ tasks = [t \in Tasks |-> NoTask]
  /\ carried = [t \in Tasks |-> <<>>]
  /\ pc = "idle"
  /\ msg = NoMsg
  /\ prefix = <<>>
  /\ parsed = NoParsed
  /\ category = "undefined"
  /\ allPermissions = Undefined
  /\ rd = NoRead
  /\ queries = <<>>
  /\ events = <<>>
  /\ hooks = <<>>
  /\ outcome = "none"
  /\ errorCount = 0
  /\ allowDMs = AllowDMs("undefined")
  /\ trace = <<>>

\* An Interaction after construction from payload data d and resolved tables
\* r (part_000 lines 110-134): no call has been made on it
InitInteraction(d, r) ==
  /\ responded = FALSE
  /\ posts = <<>>
  /\ call = NoCall
  /\ awaiting = <<>>
  /\ results = <<>>
  /\ webhook = <<>>
  /\ data = d
  /\ resolved = r
  /\ lookup = NoLookup

Init ==
  /\ InitCommandClient
  /\ InitClient("undefined", "undefined")
  /\ InitInteraction(NoData, NoResolved)

Event(name, arg) == [name |-> name, arg |-> arg]

\* ------------------------------------------ processMessage: early filters

\* line 130: !this.allowBots && msg.author.bot === true
BotFiltered(allowBots, bot) == ~allowBots /\ bot

\* Mutant of IsBlacklisted: the result of the predicate is ignored
IsBlacklistedNever(r) == FALSE

\* lines 135, 140, 146: isXBlacklisted === true
IsBlacklisted(r) == r = "true"

\* The messageCreate listener calls processMessage, which runs the bot filter
\* and calls isUserBlacklisted. The message is processed by a client that
\* was constructed with any value of options.allowDMs.
ReceiveMessage ==
  /\ pc \in {"idle", "done"}
  /\ errorCount < MaxErrors
  /\ \E a \in UserIds, c \in ChannelIds, g \in GuildOpts,
        allowBots \in BOOLEAN, bot \in BOOLEAN :
       /\ msg' = [author |-> a, channel |-> c, guild |-> g]
       /\ rd' = [stage |-> "botFilter", allowBots |-> allowBots, bot |-> bot]
       /\ IF BotFiltered(allowBots, bot)
          THEN pc' = "done" /\ outcome' = "resolved" /\ queries' = <<>>
          ELSE /\ pc' = "userBlacklist"
               /\ outcome' = "pending"
               /\ queries' = <<"isUserBlacklisted">>
  /\ prefix' = <<>>
  /\ parsed' = NoParsed
  /\ category' = "undefined"
  /\ allPermissions' = Undefined
  /\ events' = <<>>
  /\ hooks' = <<>>
  /\ \E option \in Flags : allowDMs' = AllowDMs(option)
  /\ trace' = <<"botFilter">>
  /\ UNCHANGED <<errorCount, kvars, tvars, ovars, ivars>>

\* lines 132-138: the user predicate resolves; isChannelBlacklisted is called
UserBlacklist ==
  /\ pc = "userBlacklist"
  /\ \E r \in PredicateResults :
       /\ rd' = [stage |-> "userBlacklist", result |-> r]
       /\ IF r = "throw"
          THEN pc' = "done" /\ outcome' = "rejected" /\ UNCHANGED queries
          ELSE IF IsBlacklisted(r)
          THEN pc' = "done" /\ outcome' = "resolved" /\ UNCHANGED queries
          ELSE /\ pc' = "channelBlacklist"
               /\ queries' = Append(queries, "isChannelBlacklisted")
               /\ UNCHANGED outcome
  /\ trace' = Append(trace, "userBlacklist")
  /\ UNCHANGED <<msg, prefix, parsed, category, allPermissions, events, hooks,
                 errorCount, allowDMs, kvars, tvars, ovars, ivars>>

\* lines 137-153: the channel predicate resolves; in a guild isGuildBlacklisted
\* is called, otherwise the global prefixes are taken and getUserPrefix is
\* called
ChannelBlacklist ==
  /\ pc = "channelBlacklist"
  /\ \E r \in PredicateResults, gp \in GlobalPrefixes :
       IF r = "throw"
       THEN /\ rd' = [stage |-> "channelBlacklist", result |-> r]
            /\ pc' = "done" /\ outcome' = "rejected"
            /\ UNCHANGED <<queries, prefix>>
       ELSE IF IsBlacklisted(r)
       THEN /\ rd' = [stage |-> "channelBlacklist", result |-> r]
            /\ pc' = "done" /\ outcome' = "resolved"
            /\ UNCHANGED <<queries, prefix>>
       ELSE IF msg.guild # 0
       THEN /\ rd' = [stage |-> "channelBlacklist", result |-> r]
            /\ pc' = "guildBlacklist"
            /\ queries' = Append(queries, "isGuildBlacklisted")
            /\ UNCHANGED <<outcome, prefix>>
       ELSE /\ rd' = [stage |-> "channelBlacklist", result |-> r,
                       prefix |-> gp]
            /\ pc' = "userPrefix"
            /\ prefix' = Spread(gp)
            /\ queries' = Append(queries, "getUserPrefix")
            /\ UNCHANGED outcome
  /\ trace' = Append(trace, "channelBlacklist")
  /\ UNCHANGED <<msg, parsed, category, allPermissions, events, hooks,
                 errorCount, allowDMs, kvars, tvars, ovars, ivars>>

\* lines 142-153: the guild predicate resolves; the global prefixes are taken
\* and getUserPrefix is called
GuildBlacklist ==
  /\ pc = "guildBlacklist"
  /\ \E r \in PredicateResults, gp \in GlobalPrefixes :
       IF r = "throw"
       THEN /\ rd' = [stage |-> "guildBlacklist", result |-> r]
            /\ pc' = "done" /\ outcome' = "rejected"
            /\ UNCHANGED <<queries, prefix>>
       ELSE IF IsBlacklisted(r)
       THEN /\ rd' = [stage |-> "guildBlacklist", result |-> r]
            /\ pc' = "done" /\ outcome' = "resolved"
            /\ UNCHANGED <<queries, prefix>>
       ELSE /\ rd' = [stage |-> "guildBlacklist", result |-> r,
                       prefix |-> gp]
            /\ pc' = "userPrefix"
            /\ prefix' = Spread(gp)
            /\ queries' = Append(queries, "getUserPrefix")
            /\ UNCHANGED outcome
  /\ trace' = Append(trace, "guildBlacklist")
  /\ UNCHANGED <<msg, parsed, category, allPermissions, events, hooks,
                 errorCount, allowDMs, kvars, tvars, ovars, ivars>>

\* --------------------------------------- processMessage: prefix resolution

\* Mutant of AddPrefixes: the prefixes of a provider replace the earlier ones
AddPrefixesReplaces(list, r) == IF r = Undefined THEN list ELSE Spread(r)

\* lines 153-165: a provider resolves; undefined adds nothing
AddPrefixes(list, r) == IF r = Undefined THEN list ELSE list \o Spread(r)

\* lines 153-160: getUserPrefix resolves; in a guild getGuildPrefix is called
UserPrefix ==
  /\ pc = "userPrefix"
  /\ \E r \in ProviderResults :
       /\ rd' = [stage |-> "userPrefix", result |-> r]
       /\ IF r = Throw
          THEN /\ pc' = "done" /\ outcome' = "rejected"
               /\ UNCHANGED <<queries, prefix>>
          ELSE /\ prefix' = AddPrefixes(prefix, r)
               /\ UNCHANGED outcome
               /\ IF msg.guild # 0
                  THEN /\ pc' = "guildPrefix"
                       /\ queries' = Append(queries, "getGuildPrefix")
                  ELSE pc' = "resolve" /\ UNCHANGED queries
  /\ trace' = Append(trace, "userPrefix")
  /\ UNCHANGED <<msg, parsed, category, allPermissions, events, hooks,
                 errorCount, allowDMs, kvars, tvars, ovars, ivars>>

\* lines 159-165: getGuildPrefix resolves
GuildPrefix ==
  /\ pc = "guildPrefix"
  /\ \E r \in ProviderResults :
       /\ rd' = [stage |-> "guildPrefix", result |-> r]
       /\ IF r = Throw
          THEN pc' = "done" /\ outcome' = "rejected" /\ UNCHANGED prefix
          ELSE /\ prefix' = AddPrefixes(prefix, r)
               /\ pc' = "resolve"
               /\ UNCHANGED outcome
  /\ trace' = Append(trace, "guildPrefix")
  /\ UNCHANGED <<msg, parsed, category, allPermissions, queries, events,
                 hooks, errorCount, allowDMs, kvars, tvars, ovars, ivars>>

\* Mutant of LongestMatch: the first candidate the content starts with
FirstMatch(list, content) ==
  LET matching == Filter(Unique(list), content)
  IN  IF matching = <<>> THEN Undefined ELSE Str(matching[1])

\* lines 167-173: the longest candidate the content starts with
LongestMatch(list, content) ==
  LET sorted == SortByLengthDesc(Filter(Unique(list), content))
  IN  IF sorted = <<>> THEN Undefined ELSE Str(sorted[1])

\* Mutant of UsedPrefix: the mention forms are tried whatever mentionPrefix is
UsedPrefixMentionAlways(list, content, mentionPrefix) ==
  LET found == LongestMatch(list, content)
  IN  IF found = Undefined
      THEN IF StartsWith(content, mention) THEN Str(mention)
           ELSE IF StartsWith(content, nickMention) THEN Str(nickMention)
           ELSE Undefined
      ELSE found

\* lines 169-186: usedPrefix, Undefined when processMessage returns
UsedPrefix(list, content, mentionPrefix) ==
  LET found == LongestMatch(list, content)
  IN  IF found = Undefined /\ mentionPrefix
      THEN IF StartsWith(content, mention) THEN Str(mention)
           ELSE IF StartsWith(content, nickMention) THEN Str(nickMention)
           ELSE Undefined
      ELSE found

RECURSIVE Words(_, _)
\* the words of s, split at spaces; w is the word being read
Words(s, w) ==
  IF s = <<>> THEN (IF w = <<>> THEN <<>> ELSE <<w>>)
  ELSE IF Head(s) = " "
       THEN (IF w = <<>> THEN <<>> ELSE <<w>>) \o Words(Tail(s), <<>>)
       ELSE Words(Tail(s), Append(w, Head(s)))

\* parseCommand(client, msg, prefix): the prefix is stripped, one following
\* space is skipped when spacesAfterPrefix is set, the first word is the name
\* and the other words are the arguments; Undefined when there is no name
ParseCommand(content, used, spacesAfterPrefix) ==
  LET rest == SubSeq(content, Len(used) + 1, Len(content))
      body == IF spacesAfterPrefix /\ rest # <<>> /\ Head(rest) = " "
              THEN Tail(rest) ELSE rest
      words == Words(body, <<>>)
  IN  IF body = <<>> \/ Head(body) = " " THEN Undefined ELSE Arr(words)

\* this.commands.fetch(parsed): the registered command of that name
Fetch(name) == name \in Registry

\* lines 167-197: the prefix is resolved, the command parsed and looked up
ResolveCommand ==
  /\ pc = "resolve"
  /\ \E content \in Contents, mentionPrefix \in BOOLEAN,
        spacesAfterPrefix \in BOOLEAN, cat \in {"undefined", "category"} :
       LET used == UsedPrefix(prefix, content, mentionPrefix)
           p == IF used = Undefined THEN Undefined
                ELSE ParseCommand(content, used.v[1], spacesAfterPrefix)
           found == p # Undefined /\ Fetch(p.v[1])
       IN  /\ rd' = [stage |-> "resolve", content |-> content,
                      candidates |-> prefix, unique |-> Unique(prefix),
                      mentionPrefix |-> mentionPrefix,
                      spacesAfterPrefix |-> spacesAfterPrefix,
                      usedPrefix |-> used, found |-> found]
           /\ trace' = trace \o <<"usedPrefix">>
                          \o (IF used # Undefined THEN <<"parse">> ELSE <<>>)
                          \o (IF p # Undefined THEN <<"fetch">> ELSE <<>>)
           /\ IF found
              THEN /\ pc' = "resolve.ok"
                   /\ parsed' = [name |-> p.v[1], args |-> Tail(p.v)]
                   /\ category' = cat
                   /\ UNCHANGED outcome
              ELSE /\ pc' = "done" /\ outcome' = "resolved"
                   /\ UNCHANGED <<parsed, category>>
  /\ prefix' = <<>>
  /\ UNCHANGED <<msg, allPermissions, queries, events, hooks, errorCount,
                 allowDMs, kvars, tvars, ovars, ivars>>

\* ------------------------------------ processMessage: between the checks

\* Mutant of NextCheck: the whitelists are skipped after the lookup
NextCheckSkipsWhitelists ==
  [c \in {"resolve.ok", "wlGuild.ok", "wlChannel.ok", "wlUser.ok", "scope.ok",
          "botPerms.ok", "userPerms.ok"} |->
     CASE c = "resolve.ok" -> "scope"
       [] c = "wlGuild.ok" -> "wlChannel"
       [] c = "wlChannel.ok" -> "wlUser"
       [] c = "wlUser.ok" -> "scope"
       [] c = "scope.ok" -> "botPerms"
       [] c = "botPerms.ok" -> "userPerms"
       [] c = "userPerms.ok" -> "args"]

\* The checks of lines 167-359 run one after the other without suspending.
\* A check that does not return passes control to the next one; the fields
\* it read are not read again, and allPermissions is not read after line 337.
NextCheck ==
  [c \in {"resolve.ok", "wlGuild.ok", "wlChannel.ok", "wlUser.ok", "scope.ok",
          "botPerms.ok", "userPerms.ok"} |->
     CASE c = "resolve.ok" -> "wlGuild"
       [] c = "wlGuild.ok" -> "wlChannel"
       [] c = "wlChannel.ok" -> "wlUser"
       [] c = "wlUser.ok" -> "scope"
       [] c = "scope.ok" -> "botPerms"
       [] c = "botPerms.ok" -> "userPerms"
       [] c = "userPerms.ok" -> "args"]

Proceed ==
  /\ pc \in DOMAIN NextCheck
  /\ pc' = NextCheck[pc]
  /\ rd' = NoRead
  /\ allPermissions' = IF pc = "userPerms.ok" THEN Undefined ELSE allPermissions
  /\ UNCHANGED trace
  /\ UNCHANGED <<msg, prefix, parsed, category, queries, events, hooks,
                 outcome, errorCount, allowDMs, kvars, tvars, ovars, ivars>>

\* ----------------------------------------------- processMessage: whitelists

\* Values of a whitelistedGuilds / whitelistedChannels / whitelistedUsers field
WhitelistOpts == {Undefined, Arr(<<>>), Arr(<<1>>), Arr(<<2>>)}

\* Values of a field of the category (category?.x): undefined, written none,
\* when there is no category
CategoryField(opts, none) == IF category = "undefined" THEN {none} ELSE opts

\* Mutant of WhitelistDrops: the list of the category is enforced even when
\* the command defines its own
WhitelistDropsBoth(cmdList, catList, present, id) ==
  \/ /\ catList # Undefined
     /\ present
     /\ ~Includes(catList.v, id)
  \/ /\ cmdList # Undefined
     /\ present
     /\ ~Includes(cmdList.v, id)

\* Mutant of WhitelistDrops: an undefined list is enforced as an empty one
WhitelistDropsUndefinedAsEmpty(cmdList, catList, present, id) ==
  /\ present
  /\ ~Includes((IF cmdList # Undefined THEN cmdList ELSE catList).v, id)

\* lines 201-213 (guilds: present is msg.guild !== undefined), 216-226
\* (channels) and 229-239 (users): whether processMessage returns
WhitelistDrops(cmdList, catList, present, id) ==
  \/ /\ cmdList = Undefined
     /\ catList # Undefined
     /\ present
     /\ ~Includes(catList.v, id)
  \/ /\ cmdList # Undefined
     /\ present
     /\ ~Includes(cmdList.v, id)

\* lines 201-213
WhitelistGuild ==
  /\ pc = "wlGuild"
  /\ \E cmdList \in WhitelistOpts,
        catList \in CategoryField(WhitelistOpts, Undefined) :
       /\ rd' = [stage |-> "wlGuild", cmdList |-> cmdList, catList |-> catList]
       /\ IF WhitelistDrops(cmdList, catList, msg.guild # 0, msg.guild)
          THEN pc' = "done" /\ outcome' = "resolved"
          ELSE pc' = "wlGuild.ok" /\ UNCHANGED outcome
  /\ trace' = Append(trace, "wlGuild")
  /\ UNCHANGED <<msg, prefix, parsed, category, allPermissions, queries,
                 events, hooks, errorCount, allowDMs, kvars, tvars, ovars, ivars>>

\* lines 216-226
WhitelistChannel ==
  /\ pc = "wlChannel"
  /\ \E cmdList \in WhitelistOpts,
        catList \in CategoryField(WhitelistOpts, Undefined) :
       /\ rd' = [stage |-> "wlChannel", cmdList |-> cmdList,
                  catList |-> catList]
       /\ IF WhitelistDrops(cmdList, catList, TRUE, msg.channel)
          THEN pc' = "done" /\ outcome' = "resolved"
          ELSE pc' = "wlChannel.ok" /\ UNCHANGED outcome
  /\ trace' = Append(trace, "wlChannel")
  /\ UNCHANGED <<msg, prefix, parsed, category, allPermissions, queries,
                 events, hooks, errorCount, allowDMs, kvars, tvars, ovars, ivars>>

\* lines 229-239
WhitelistUser ==
  /\ pc = "wlUser"
  /\ \E cmdList \in WhitelistOpts,
        catList \in CategoryField(WhitelistOpts, Undefined) :
       /\ rd' = [stage |-> "wlUser", cmdList |-> cmdList, catList |-> catList]
       /\ IF WhitelistDrops(cmdList, catList, TRUE, msg.author)
          THEN pc' = "done" /\ outcome' = "resolved"
          ELSE pc' = "wlUser.ok" /\ UNCHANGED outcome
  /\ trace' = Append(trace, "wlUser")
  /\ UNCHANGED <<msg, prefix, parsed, category, allPermissions, queries,
                 events, hooks, errorCount, allowDMs, kvars, tvars, ovars, ivars>>

\* ---------------------------------------------- processMessage: scope flags

\* CommandClientOptions.owners: user 1 is an owner, user 2 is not
owners == <<1>>

\* Mutant of EffectiveFlag: the flag of the category is never consulted
EffectiveFlagCommandOnly(cmdFlag, catFlag) == cmdFlag

\* lines 257-259, 266-268, 275-277:
\* (command.x !== undefined || category === undefined ? command.x : category.x)
EffectiveFlag(cmdFlag, catFlag) ==
  IF cmdFlag # "undefined" \/ category = "undefined" THEN cmdFlag ELSE catFlag

\* Mutant of ScopeVeto: guild-only is checked before owner-only
ScopeVetoGuildFirst(f, author, guild) ==
  IF EffectiveFlag(f.guildOnly, f.catGuildOnly) = "true" /\ guild = 0
  THEN "commandGuildOnly"
  ELSE IF EffectiveFlag(f.ownerOnly, f.catOwnerOnly) = "true"
            /\ ~Includes(owners, author)
  THEN "commandOwnerOnly"
  ELSE IF EffectiveFlag(f.dmOnly, f.catDmOnly) = "true" /\ guild # 0
  THEN "commandDmOnly"
  ELSE IF f.nsfw = "true" /\ (guild = 0 \/ f.channelNsfw # "true")
  THEN "commandNSFW"
  ELSE "none"

\* Mutant of ScopeVeto: the nsfw check applies to guild messages only
ScopeVetoNsfwInGuildOnly(f, author, guild) ==
  IF EffectiveFlag(f.ownerOnly, f.catOwnerOnly) = "true"
       /\ ~Includes(owners, author)
  THEN "commandOwnerOnly"
  ELSE IF EffectiveFlag(f.guildOnly, f.catGuildOnly) = "true" /\ guild = 0
  THEN "commandGuildOnly"
  ELSE IF EffectiveFlag(f.dmOnly, f.catDmOnly) = "true" /\ guild # 0
  THEN "commandDmOnly"
  ELSE IF f.nsfw = "true" /\ guild # 0 /\ f.channelNsfw # "true"
  THEN "commandNSFW"
  ELSE "none"

\* lines 256-287: the event of the first scope check that fails, or "none".
\* f holds the flags read; guild is msg.guild (0: undefined)
ScopeVeto(f, author, guild) ==
  IF EffectiveFlag(f.ownerOnly, f.catOwnerOnly) = "true"
       /\ ~Includes(owners, author)
  THEN "commandOwnerOnly"
  ELSE IF EffectiveFlag(f.guildOnly, f.catGuildOnly) = "true" /\ guild = 0
  THEN "commandGuildOnly"
  ELSE IF EffectiveFlag(f.dmOnly, f.catDmOnly) = "true" /\ guild # 0
  THEN "commandDmOnly"
  ELSE IF f.nsfw = "true" /\ (guild = 0 \/ f.channelNsfw # "true")
  THEN "commandNSFW"
  ELSE "none"

\* The flags a command, its category, the channel and the configuration hold
ScopeInputs ==
  [ownerOnly : Flags, catOwnerOnly : CategoryField(Flags, "undefined"),
   guildOnly : Flags, catGuildOnly : CategoryField(Flags, "undefined"),
   dmOnly : Flags, catDmOnly : CategoryField(Flags, "undefined"),
   nsfw : {"undefined", "true"}, channelNsfw : {"undefined", "true"}]

\* lines 254-287
ScopeFlags ==
  /\ pc = "scope"
  /\ \E f \in ScopeInputs :
       LET veto == ScopeVeto(f, msg.author, msg.guild)
       IN  /\ rd' = [stage |-> "scope", f |-> f]
           /\ IF veto # "none"
              THEN /\ events' = Append(events, Event(veto, <<>>))
                   /\ pc' = "done" /\ outcome' = "resolved"
              ELSE pc' = "scope.ok" /\ UNCHANGED <<events, outcome>>
  /\ trace' = Append(trace, "scope")
  /\ UNCHANGED <<msg, prefix, parsed, category, allPermissions, queries,
                 hooks, errorCount, allowDMs, kvars, tvars, ovars, ivars>>

\* ---------------------------------------------- processMessage: permissions

PermNames == {BAN, KICK}

\* Values of a permissions / botPermissions / userPermissions field
PermOpts ==
  {Undefined, Str(BAN), Arr(<<>>), Arr(<<BAN>>), Arr(<<KICK, BAN>>)}

\* The permissions the bot (me.permissions) or the member holds
HeldOpts == SUBSET PermNames

\* msg.member: undefined, or a member and the permissions it holds
MemberOpts ==
  {[present |-> FALSE, perms |-> {}]}
    \cup {[present |-> TRUE, perms |-> h] : h \in HeldOpts}

\* Permissions.has(perm): whether the permission named perm is held
Has(held, perm) == perm \in held

\* The characters of a string, each a string of length 1
Chars(str) == [i \in 1..Len(str) |-> <<str[i]>>]

\* lines 312, 337: [...new Set(...permissions, ...allPermissions)].
\* The Set constructor takes its first argument only, and iterates it: the
\* result holds the distinct characters of the first string spread into the
\* call.
SetOfSpread(permissions, all) ==
  LET args == permissions \o
                (IF all.t = "string" THEN Chars(all.v[1]) ELSE all.v)
  IN  IF args = <<>> THEN <<>> ELSE Unique(Chars(args[1]))

\* lines 289-292
AllPermissions(cmdPermissions, catPermissions) ==
  IF cmdPermissions # Undefined THEN cmdPermissions ELSE catPermissions

\* lines 303-312 and 328-337: the list `permissions` the loop goes through;
\* own is the command's field, fallback the category's, one of them defined
CheckedPermissions(own, fallback, all) ==
  LET permissions == IF own = Undefined THEN fallback ELSE own
  IN  IF all # Undefined THEN SetOfSpread(permissions.v, all)
      ELSE permissions.v

RECURSIVE MissingOf(_, _)
\* lines 314-316 and 341-344: the permissions of list not in held, in order
MissingOf(list, held) ==
  IF list = <<>> THEN <<>>
  ELSE (IF Has(held, Head(list)) THEN <<>> ELSE <<Head(list)>>)
         \o MissingOf(Tail(list), held)

\* lines 289-321
BotPermissions ==
  /\ pc = "botPerms"
  /\ \E cmdPermissions \in PermOpts,
        catPermissions \in CategoryField(PermOpts, Undefined),
        botPermissions \in PermOpts, held \in HeldOpts :
       LET all == AllPermissions(cmdPermissions, catPermissions)
           checked == (botPermissions # Undefined \/ catPermissions # Undefined)
                        /\ msg.guild # 0
           missing == IF checked
                      THEN MissingOf(CheckedPermissions(botPermissions,
                                       catPermissions, all), held)
                      ELSE <<>>
       IN  /\ rd' = [stage |-> "botPerms", cmdPermissions |-> cmdPermissions,
                      catPermissions |-> catPermissions,
                      botPermissions |-> botPermissions,
                      held |-> IF checked THEN held ELSE {}]
           /\ allPermissions' = all
           /\ IF missing # <<>>
              THEN /\ events' =
                        Append(events,
                               Event("commandBotMissingPermissions", missing))
                   /\ pc' = "done" /\ outcome' = "resolved"
              ELSE pc' = "botPerms.ok" /\ UNCHANGED <<events, outcome>>
  /\ trace' = Append(trace, "botPerms")
  /\ UNCHANGED <<msg, prefix, parsed, category, queries, hooks, errorCount,
                 allowDMs, kvars, tvars, ovars, ivars>>

\* lines 323-349
UserPermissions ==
  /\ pc = "userPerms"
  /\ \E userPermissions \in PermOpts,
        catUserPermissions \in CategoryField(PermOpts, Undefined),
        member \in MemberOpts :
       LET checked == (userPermissions # Undefined
                         \/ catUserPermissions # Undefined) /\ msg.guild # 0
           missing == IF checked
                      THEN MissingOf(CheckedPermissions(userPermissions,
                                       catUserPermissions, allPermissions),
                                     member.perms)
                      ELSE <<>>
       IN  /\ rd' = [stage |-> "userPerms", all |-> allPermissions,
                      userPermissions |-> userPermissions,
                      catUserPermissions |-> catUserPermissions,
                      member |-> IF checked THEN member
                                 ELSE [present |-> FALSE, perms |-> {}]]
           /\ IF missing # <<>>
              THEN /\ events' =
                        Append(events,
                               Event("commandUserMissingPermissions", missing))
                   /\ pc' = "done" /\ outcome' = "resolved"
              ELSE pc' = "userPerms.ok" /\ UNCHANGED <<events, outcome>>
  /\ trace' = Append(trace, "userPerms")
  /\ UNCHANGED <<msg, prefix, parsed, category, allPermissions, queries,
                 hooks, errorCount, allowDMs, kvars, tvars, ovars, ivars>>

\* ------------------------------------- processMessage: arguments, lifecycle

\* Values of command.args: undefined, a boolean (v = 1 for true), a number
ArgsOpts ==
  {[t |-> "undefined", v |-> 0], [t |-> "boolean", v |-> 1],
   [t |-> "boolean", v |-> 0], [t |-> "number", v |-> 1],
   [t |-> "number", v |-> 2]}

\* Values the before-hook resolves to, or it throws
BeforeResults == {"false", "true", "undefined", "0", "throw"}

\* Mutant of BeforeAborts: any falsy value of the before-hook aborts
BeforeAbortsFalsy(r) == r \in {"false", "undefined", "0"}

\* line 365: beforeExecute === false
BeforeAborts(r) == r = "false"

\* Mutant of CheckArgs: commandUsed is emitted only when no arity notice is
CheckArgsUsedUnlessNotice ==
  /\ pc = "args"
  /\ \E a \in ArgsOpts :
       /\ rd' = [stage |-> "args", args |-> a]
       /\ IF a.t = "boolean" /\ Len(parsed.args) = 0
          THEN /\ events' = Append(events, Event("commandMissingArgs", <<>>))
               /\ pc' = "done" /\ outcome' = "resolved"
               /\ trace' = Append(trace, "args")
               /\ UNCHANGED hooks
          ELSE /\ events' =
                    Append(events,
                           IF a.t = "number" /\ Len(parsed.args) < a.v
                           THEN Event("commandMissingArgs", <<>>)
                           ELSE Event("commandUsed", <<>>))
               /\ hooks' = Append(hooks, "before")
               /\ trace' = trace \o <<"args", "before">>
               /\ pc' = "before"
               /\ UNCHANGED outcome
  /\ UNCHANGED <<msg, prefix, parsed, category, allPermissions, queries,
                 errorCount, allowDMs, kvars, tvars, ovars, ivars>>

\* lines 351-364: the arity check, commandUsed, and the call of beforeExecute
CheckArgs ==
  /\ pc = "args"
  /\ \E a \in ArgsOpts :
       /\ rd' = [stage |-> "args", args |-> a]
       /\ IF a.t = "boolean" /\ Len(parsed.args) = 0
          THEN /\ events' = Append(events, Event("commandMissingArgs", <<>>))
               /\ pc' = "done" /\ outcome' = "resolved"
               /\ trace' = Append(trace, "args")
               /\ UNCHANGED hooks
          ELSE /\ events' =
                    events
                      \o (IF a.t = "number" /\ Len(parsed.args) < a.v
                          THEN <<Event("commandMissingArgs", <<>>)>> ELSE <<>>)
                      \o <<Event("commandUsed", <<>>)>>
               /\ hooks' = Append(hooks, "before")
               /\ trace' = trace \o <<"args", "before">>
               /\ pc' = "before"
               /\ UNCHANGED outcome
  /\ UNCHANGED <<msg, prefix, parsed, category, allPermissions, queries,
                 errorCount, allowDMs, kvars, tvars, ovars, ivars>>

\* lines 364-371: beforeExecute resolves or throws; execute is called
BeforeExecute ==
  /\ pc = "before"
  /\ \E r \in BeforeResults :
       /\ rd' = [stage |-> "before", result |-> r]
       /\ trace' = trace
                      \o <<IF r = "throw" THEN "before.threw" ELSE "before.done">>
                      \o (IF r = "throw" \/ BeforeAborts(r) THEN <<>>
                          ELSE <<"execute">>)
       /\ IF r = "throw"
          THEN /\ events' = Append(events, Event("commandError", <<"before">>))
               /\ errorCount' = errorCount + 1
               /\ pc' = "done" /\ outcome' = "resolved"
               /\ UNCHANGED hooks
          ELSE IF BeforeAborts(r)
          THEN /\ pc' = "done" /\ outcome' = "resolved"
               /\ UNCHANGED <<events, errorCount, hooks>>
          ELSE /\ hooks' = Append(hooks, "execute")
               /\ pc' = "execute"
               /\ UNCHANGED <<events, errorCount, outcome>>
  /\ UNCHANGED <<msg, prefix, parsed, category, allPermissions, queries,
                 allowDMs, kvars, tvars, ovars, ivars>>

\* Mutant of AfterRuns: afterExecute is called whatever execute did
AfterRunsAlways(r) == TRUE

\* lines 367-368: afterExecute is called when execute did not throw
AfterRuns(r) == r = "ok"

\* Values execute resolves to
ExecuteValues == {"undefined", "x"}

\* lines 241-252: the CommandContext handed to the events and the hooks
Context == [name |-> parsed.name, args |-> parsed.args, message |-> msg]

\* Mutant of AfterArgs: afterExecute is called with the context only
AfterArgsContextOnly(ctx, result) == [ctx |-> ctx, result |-> "undefined"]

\* line 368: command.afterExecute(ctx, result)
AfterArgs(ctx, result) == [ctx |-> ctx, result |-> result]

\* lines 367-371: execute resolves or throws; afterExecute is called and not
\* awaited: it returns ("ok"), throws before returning ("throw"), or returns
\* a promise that rejects ("reject")
Execute ==
  /\ pc = "execute"
  /\ \E r \in {"ok", "throw"}, value \in ExecuteValues,
        after \in {"ok", "throw", "reject"} :
       LET ran == AfterRuns(r)
           thrown == IF r = "throw" THEN <<"execute">>
                     ELSE IF ran /\ after = "throw" THEN <<"after">>
                     ELSE <<>>
       IN  /\ rd' = IF ran
                    THEN [stage |-> "execute", result |-> r, value |-> value,
                          after |-> after,
                          afterArgs |-> AfterArgs(Context, value)]
                    ELSE [stage |-> "execute", result |-> r, after |-> "none"]
           /\ hooks' = IF ran THEN Append(hooks, "after") ELSE hooks
           /\ trace' = trace
                          \o <<IF r = "throw" THEN "execute.threw"
                               ELSE "execute.done">>
                          \o (IF ran THEN <<"after">> ELSE <<>>)
           /\ IF thrown # <<>>
              THEN /\ events' = Append(events, Event("commandError", thrown))
                   /\ errorCount' = errorCount + 1
              ELSE UNCHANGED <<events, errorCount>>
  /\ pc' = "done"
  /\ outcome' = "resolved"
  /\ UNCHANGED <<msg, prefix, parsed, category, allPermissions, queries,
                 allowDMs, kvars, tvars, ovars, ivars>>

Next ==
  \/ ReceiveMessage
  \/ UserBlacklist
  \/ ChannelBlacklist
  \/ GuildBlacklist
  \/ UserPrefix
  \/ GuildPrefix
  \/ ResolveCommand
  \/ Proceed
  \/ WhitelistGuild
  \/ WhitelistChannel
  \/ WhitelistUser
  \/ ScopeFlags
  \/ BotPermissions
  \/ UserPermissions
  \/ CheckArgs
  \/ BeforeExecute
  \/ Execute

Spec == Init /\ [][Next]_vars

\* ------------------------------------- processMessage: concurrent tasks

\* What a processMessage reads when it starts or resumes at a suspension
\* point (an await of lines 132-367), up to its next suspension point:
\* idle: is the author a filtered bot, is there a guild (line 130, 142);
\* a blacklist predicate: its result or throw; a prefix provider: it resolves
\* or throws, and after the last one the result of the synchronous checks
\* of lines 167-359; beforeExecute: its result or throw; execute: resolves
\* or throws, and whether afterExecute throws
GateResults ==
  {"silent", "commandOwnerOnly", "commandMissingArgs", "notice", "pass"}

TaskInputs(task) ==
  CASE task.pc = "idle" -> {"bot", "human"} \X {"dm", "guild"}
    [] task.pc \in {"userBlacklist", "channelBlacklist", "guildBlacklist"}
         -> {<<"false">>, <<"true">>, <<"throw">>}
    [] task.pc = "userPrefix" /\ task.guild -> {<<"ok">>, <<"throw">>}
    [] task.pc \in {"userPrefix", "guildPrefix"}
         -> {<<"throw", "silent">>} \cup ({"ok"} \X GateResults)
    [] task.pc = "before" -> {<<"false">>, <<"true">>, <<"throw">>}
    [] task.pc = "execute" -> {"ok", "throw"} \X {"ok", "throw"}
    [] OTHER -> {}

\* the task ends: processMessage returns (resolved) or rejects
Ends(task, how, out) ==
  [pc |-> "done", guild |-> task.guild, outcome |-> how, out |-> out]

\* the task suspends at the next await
Awaits(task, at, out) ==
  [pc |-> at, guild |-> task.guild, outcome |-> "pending", out |-> out]

\* lines 167-364: the synchronous checks after the prefixes are gathered
Gate(task, g) ==
  CASE g = "silent" -> Ends(task, "resolved", <<>>)
    [] g \in {"commandOwnerOnly", "commandMissingArgs"}
         -> Ends(task, "resolved", <<g>>)
    [] g = "notice"
         -> Awaits(task, "before",
                   <<"commandMissingArgs", "commandUsed", "before">>)
    [] g = "pass" -> Awaits(task, "before", <<"commandUsed", "before">>)

\* lines 129-372: processMessage from one suspension point to the next, with
\* the events and hook calls it makes on the way
TaskStep(task, in) ==
  CASE task.pc = "idle"
         -> IF in[1] = "bot" THEN Ends(task, "resolved", <<>>)
            ELSE [pc |-> "userBlacklist", guild |-> in[2] = "guild",
                  outcome |-> "pending", out |-> <<>>]
    [] task.pc \in {"userBlacklist", "channelBlacklist", "guildBlacklist"}
         -> IF in[1] = "throw" THEN Ends(task, "rejected", <<>>)
            ELSE IF in[1] = "true" THEN Ends(task, "resolved", <<>>)
            ELSE IF task.pc = "userBlacklist"
            THEN Awaits(task, "channelBlacklist", <<>>)
            ELSE IF task.pc = "channelBlacklist" /\ task.guild
            THEN Awaits(task, "guildBlacklist", <<>>)
            ELSE Awaits(task, "userPrefix", <<>>)
    [] task.pc \in {"userPrefix", "guildPrefix"}
         -> IF in[1] = "throw" THEN Ends(task, "rejected", <<>>)
            ELSE IF task.pc = "userPrefix" /\ task.guild
            THEN Awaits(task, "guildPrefix", <<>>)
            ELSE Gate(task, in[2])
    [] task.pc = "before"
         -> IF in[1] = "throw" THEN Ends(task, "resolved", <<"commandError">>)
            ELSE IF in[1] = "false" THEN Ends(task, "resolved", <<>>)
            ELSE Awaits(task, "execute", <<"execute">>)
    [] task.pc = "execute"
         -> IF in[1] = "throw" THEN Ends(task, "resolved", <<"commandError">>)
            ELSE IF in[2] = "throw"
            THEN Ends(task, "resolved", <<"after", "commandError">>)
            ELSE Ends(task, "resolved", <<"after">>)

\* Mutant of EventContext: the context is shared, it is the first task's
EventContextShared(t) == 1

\* lines 241-252: ctx is a local constant of the invocation; the events and
\* the hooks of task t carry the context of task t
EventContext(t) == t

\* task t, at a suspension point or not yet started, runs to its next
\* suspension point or to its end
TaskRuns(t) ==
  /\ \E in \in TaskInputs(tasks[t]) :
       LET step == TaskStep(tasks[t], in)
       IN  /\ tasks' = [tasks EXCEPT
                          ![t] = [pc |-> step.pc, guild |-> step.guild,
                                  outcome |-> step.outcome,
                                  inputs |-> Append(@.inputs, in)]]
           /\ carried' = [carried EXCEPT
                            ![EventContext(t)] = @ \o step.out]
  /\ UNCHANGED <<pvars, kvars, ovars, ivars>>

\* the listener is called with a message
MessageCreate == \E t \in Tasks : tasks[t].pc = "idle" /\ TaskRuns(t)

\* a promise a task awaits is settled
TaskResumes == \E t \in Tasks : tasks[t].pc # "idle" /\ TaskRuns(t)

NextTasks ==
  \/ MessageCreate
  \/ TaskResumes

SpecTasks == Init /\ [][NextTasks]_vars

\* ------------------------------------------------------------ Interaction

\* Values of InteractionResponse.type given by a caller of respond()
ResponseTypes == {"undefined", "ACKNOWLEDGE", "CHANNEL_MESSAGE"}

\* The methods that answer the Interaction: respond() and its sugar
RespondOps == {"respond", "acknowledge", "reply"}

\* Mutant of AlreadyResponded: respond() does not look at responded
AlreadyRespondedNever == FALSE

\* line 160: if (this.responded) throw new Error('Already responded ...')
AlreadyResponded == responded

\* Mutant of ResponseType: without withSource === true the plain type is sent
ResponseTypePlainUnlessTrue(type, withSource) ==
  IF type # "undefined" THEN type
  ELSE IF withSource = "true" THEN "CHANNEL_MESSAGE_WITH_SOURCE"
  ELSE "CHANNEL_MESSAGE"

\* lines 170-174: the type of the payload
ResponseType(type, withSource) ==
  IF type # "undefined" THEN type
  ELSE IF withSource = "false" THEN "CHANNEL_MESSAGE"
  ELSE "CHANNEL_MESSAGE_WITH_SOURCE"

\* InteractionResponseFlags.EPHEMERAL: one bit, 1 << 6
EPHEMERAL == 64

\* A number given as data.flags
Num(n) == [t |-> "number", v |-> <<n>>]

\* The fields ephemeral, temp and flags of the data given to respond(): flags
\* is undefined, a number or an array of numbers, each a bit field that fits
\* in 31 bits
NoFlagData == [ephemeral |-> "undefined", temp |-> "undefined",
               flags |-> Undefined]
FlagData ==
  { NoFlagData,
    [ephemeral |-> "true", temp |-> "undefined", flags |-> Undefined],
    [ephemeral |-> "false", temp |-> "true", flags |-> Num(4)],
    [ephemeral |-> "undefined", temp |-> "false", flags |-> Num(5)],
    [ephemeral |-> "true", temp |-> "true", flags |-> Arr(<<4, 2>>)],
    [ephemeral |-> "false", temp |-> "undefined", flags |-> Arr(<<>>)],
    [ephemeral |-> "undefined", temp |-> "undefined",
     flags |-> Arr(<<EPHEMERAL, 1>>)] }

RECURSIVE BitOr(_, _)
\* a | b for non-negative a and b below 2^31
BitOr(a, b) ==
  IF a = 0 THEN b
  ELSE IF b = 0 THEN a
  ELSE (IF a % 2 = 1 \/ b % 2 = 1 THEN 1 ELSE 0)
         + 2 * BitOr(a \div 2, b \div 2)

RECURSIVE Reduce(_, _)
\* line 167: data.flags.reduce((p, a) => p | a, flags)
Reduce(list, p) ==
  IF list = <<>> THEN p ELSE Reduce(Tail(list), BitOr(p, Head(list)))

\* Mutant of ResponseFlags: the deprecated field temp is not read
ResponseFlagsNoTemp(given) ==
  LET flags == IF given.ephemeral = "true" THEN EPHEMERAL ELSE 0
  IN  IF given.flags.t = "array" THEN Reduce(given.flags.v, flags)
      ELSE IF given.flags.t = "number" THEN BitOr(flags, given.flags.v[1])
      ELSE flags

\* lines 161-168: the flags of the payload
ResponseFlags(given) ==
  LET flags == IF given.ephemeral = "true" \/ given.temp = "true"
               THEN EPHEMERAL ELSE 0
  IN  IF given.flags.t = "array" THEN Reduce(given.flags.v, flags)
      ELSE IF given.flags.t = "number" THEN BitOr(flags, given.flags.v[1])
      ELSE flags

\* lines 175-178: the payload has data (and so flags) for these types only
HasData(type) ==
  type \in {"undefined", "CHANNEL_MESSAGE_WITH_SOURCE", "CHANNEL_MESSAGE"}

\* lines 169-187: the payload of the interaction-callback POST
Payload(type, withSource, given) ==
  [type |-> ResponseType(type, withSource),
   hasData |-> HasData(type),
   flags |-> IF HasData(type) THEN ResponseFlags(given) ELSE 0]

\* lines 201-204: the type acknowledge() hands to respond()
AcknowledgeType(withSource) ==
  IF withSource = "true" THEN "ACK_WITH_SOURCE" ELSE "ACKNOWLEDGE"

\* lines 233-236: the type reply() hands to respond()
ReplyType(withSource) ==
  IF withSource = "false" THEN "CHANNEL_MESSAGE"
  ELSE "CHANNEL_MESSAGE_WITH_SOURCE"

\* lines 159-192: respond(data), called by op, up to its await: it throws when
\* already responded, and otherwise issues the interaction-callback POST.
\* The call that awaits the POST holds the data given and the payload sent
Respond(op, type, withSource, given) ==
  /\ call = NoCall
  /\ Len(results) < MaxCalls
  /\ IF AlreadyResponded
     THEN /\ results' = Append(results, [op |-> op,
                                         outcome |-> "alreadyResponded",
                                         posted |-> 0])
          /\ UNCHANGED <<posts, call>>
     ELSE /\ posts' = Append(posts, [type |-> ResponseType(type, withSource)])
          /\ call' = [op |-> op,
                       given |-> [type |-> type, withSource |-> withSource,
                                  ephemeral |-> given.ephemeral,
                                  temp |-> given.temp,
                                  flags |-> given.flags],
                       payload |-> Payload(type, withSource, given)]
          /\ UNCHANGED results
  /\ UNCHANGED <<responded, webhook, data, resolved, lookup>>
  /\ UNCHANGED <<cvars, ovars>>

\* lines 159-196
CallRespond ==
  \E type \in ResponseTypes, withSource \in Flags, given \in FlagData :
    Respond("respond", type, withSource, given)

\* lines 199-207
CallAcknowledge ==
  \E withSource \in Flags :
    Respond("acknowledge", AcknowledgeType(withSource), "undefined",
            NoFlagData)

\* lines 210-241: reply(options) for options of type
\* InteractionMessageOptions, which has flags but neither ephemeral nor temp
CallReply ==
  \E withSource \in Flags, given \in FlagData :
    /\ given.ephemeral = "undefined" /\ given.temp = "undefined"
    /\ Respond("reply", ReplyType(withSource), withSource, given)

\* Mutant of RespondedAfter: responded is set whether or not the POST succeeded
RespondedAfterAlways(ok) == TRUE

\* line 193: this.responded = true, once the POST has succeeded
RespondedAfter(ok) == IF ok THEN TRUE ELSE responded

\* lines 189-195: the POST completes; when it fails respond() rejects with
\* its error
PostCompletes ==
  /\ call.op \in RespondOps
  /\ \E ok \in BOOLEAN :
       /\ responded' = RespondedAfter(ok)
       /\ results' = Append(results,
                            [op |-> call.op,
                             outcome |-> IF ok THEN "ok" ELSE "failed",
                             posted |-> 1])
  /\ call' = NoCall
  /\ UNCHANGED <<posts, webhook, data, resolved, lookup>>
  /\ UNCHANGED <<cvars, ovars>>

NextInteraction ==
  \/ CallRespond
  \/ CallAcknowledge
  \/ CallReply
  \/ PostCompletes

SpecInteraction == Init /\ [][NextInteraction]_vars

\* ------------------------------------- Interaction: overlapping respond()

\* lines 159-192: respond(data), called by op without waiting for the calls
\* started earlier: it runs up to its await, where it joins the calls whose
\* POST is outstanding
RespondOverlapping(op, type, withSource) ==
  /\ Len(results) + Len(awaiting) < MaxCalls
  /\ IF AlreadyResponded
     THEN /\ results' = Append(results, [op |-> op,
                                         outcome |-> "alreadyResponded",
                                         posted |-> 0])
          /\ UNCHANGED <<posts, awaiting>>
     ELSE /\ posts' = Append(posts, [type |-> ResponseType(type, withSource)])
          /\ awaiting' = Append(awaiting, op)
          /\ UNCHANGED results
  /\ UNCHANGED <<responded, call, webhook, data, resolved, lookup>>
  /\ UNCHANGED cvars

\* lines 159-196
StartRespond ==
  \E type \in ResponseTypes, withSource \in Flags :
    RespondOverlapping("respond", type, withSource)

\* lines 199-207
StartAcknowledge ==
  \E withSource \in Flags :
    RespondOverlapping("acknowledge", AcknowledgeType(withSource), "undefined")

\* lines 210-241
StartReply ==
  \E withSource \in Flags :
    RespondOverlapping("reply", ReplyType(withSource), withSource)

\* the calls that are awaiting, without the i-th
Without(list, i) == SubSeq(list, 1, i - 1) \o SubSeq(list, i + 1, Len(list))

\* lines 189-195: one of the outstanding POSTs completes, in any order; its
\* respond() sets responded or rejects
AwaitedPostCompletes ==
  /\ \E i \in DOMAIN awaiting, ok \in BOOLEAN :
       /\ responded' = RespondedAfter(ok)
       /\ results' = Append(results,
                            [op |-> awaiting[i],
                             outcome |-> IF ok THEN "ok" ELSE "failed",
                             posted |-> 1])
       /\ awaiting' = Without(awaiting, i)
  /\ UNCHANGED <<posts, call, webhook, data, resolved, lookup>>
  /\ UNCHANGED cvars

NextOverlapping ==
  \/ StartRespond
  \/ StartAcknowledge
  \/ StartReply
  \/ AwaitedPostCompletes

SpecOverlapping == Init /\ [][NextOverlapping]_vars

\* ------------------------------------------------- Interaction: follow-ups

\* line 318: the number of embeds one follow-up message may carry
MaxEmbeds == 10

\* An argument of send(): undefined, a string, an Embed, or an options object
\* whose embed field is or is not defined and whose embeds field is undefined
\* or an array of n elements
NoArg == [t |-> "undefined"]
StringArg == [t |-> "string"]
EmbedArg == [t |-> "embed"]
NoEmbeds == [t |-> "undefined", n |-> 0]
EmbedList(n) == [t |-> "array", n |-> n]
OptionsArg(embed, embeds) ==
  [t |-> "options", embed |-> embed, embeds |-> embeds]
\* The calls of send(text?: string | AllWebhookMessageOptions,
\* option?: AllWebhookMessageOptions) that are made
SendArgs ==
  { <<NoArg, NoArg>>,
    <<StringArg, NoArg>>,
    <<StringArg, OptionsArg(FALSE, NoEmbeds)>>,
    <<NoArg, EmbedArg>>,
    <<NoArg, OptionsArg(FALSE, EmbedList(MaxEmbeds))>>,
    <<NoArg, OptionsArg(FALSE, EmbedList(MaxEmbeds + 1))>>,
    <<OptionsArg(FALSE, EmbedList(MaxEmbeds + 1)), NoArg>>,
    <<StringArg, OptionsArg(TRUE, EmbedList(MaxEmbeds + 1))>> }

\* The methods that send, edit or delete a follow-up message
FollowupOps == {"send", "editResponse", "deleteResponse", "editMessage",
                "deleteMessage"}

\* lines 280-283: an object given as text is the option; text is undefined
SendText(text, option) ==
  IF text.t \in {"options", "embed"} THEN NoArg ELSE text
SendOption(text, option) ==
  IF text.t \in {"options", "embed"} THEN text ELSE option

\* Mutant of SendMissing: send() accepts a call with no argument
SendMissingNever(text, option) == FALSE

\* line 285: text === undefined && option === undefined
SendMissing(text, option) == text = NoArg /\ option = NoArg

\* lines 289-302: payload.embeds. An Embed becomes { embeds: [option] }; the
\* embed field, when defined, is sent alone and the embeds field is not read
PayloadEmbeds(option) ==
  IF option.t = "embed" THEN EmbedList(1)
  ELSE IF option.t = "options"
       THEN IF option.embed THEN EmbedList(1) ELSE option.embeds
       ELSE NoEmbeds

\* Mutant of TooManyEmbeds: ten embeds are too many
TooManyEmbedsFromTen(embeds) == embeds.t = "array" /\ embeds.n >= MaxEmbeds

\* lines 315-319: payload.embeds !== undefined && payload.embeds instanceof
\* Array && payload.embeds.length > 10
TooManyEmbeds(embeds) == embeds.t = "array" /\ embeds.n > MaxEmbeds

\* Mutant of RespondedAfterFollowup: a completed follow-up sets responded
RespondedAfterFollowupSet == TRUE

\* Mutant of RespondedAfterFollowup: a completed follow-up resets responded
RespondedAfterFollowupReset == FALSE

\* lines 244-372: no follow-up method reads or assigns this.responded
RespondedAfterFollowup == responded

\* A follow-up method fails before its request: it throws err
FollowupThrows(op, err, args) ==
  /\ results' = Append(results, [op |-> op, outcome |-> err, posted |-> 0,
                                 args |-> args])
  /\ UNCHANGED <<webhook, call>>

\* A follow-up method issues its request and awaits it
FollowupRequest(op, method, target, embeds, args) ==
  /\ webhook' = Append(webhook, [method |-> method, target |-> target,
                                 embeds |-> embeds])
  /\ call' = [op |-> op, args |-> args]
  /\ UNCHANGED results

\* lines 276-324: send(text, option) up to its await
CallSend ==
  /\ call = NoCall
  /\ Len(results) < MaxCalls
  /\ \E given \in SendArgs :
       LET text == SendText(given[1], given[2])
           option == SendOption(given[1], given[2])
           embeds == PayloadEmbeds(option)
           args == [text |-> given[1], option |-> given[2]]
       IN  IF SendMissing(text, option)
           THEN FollowupThrows("send", "missingContent", args)
           ELSE IF TooManyEmbeds(embeds)
           THEN FollowupThrows("send", "tooManyEmbeds", args)
           ELSE FollowupRequest("send", "POST", "new", embeds, args)
  /\ UNCHANGED <<responded, posts, data, resolved, lookup>>
  /\ UNCHANGED <<cvars, ovars>>

\* The message a follow-up method is given: '@original' or a message id
Targets == {"@original", "m1"}

\* A follow-up method that validates nothing, up to its await
Followup(op, method, target, embeds) ==
  /\ call = NoCall
  /\ Len(results) < MaxCalls
  /\ FollowupRequest(op, method, target, embeds, [target |-> target])
  /\ UNCHANGED <<responded, posts, data, resolved, lookup>>
  /\ UNCHANGED <<cvars, ovars>>

\* lines 244-255: editResponse(data) for data that holds no embed; it sends
\* embeds: data.embeds ?? []
CallEditResponse ==
  Followup("editResponse", "PATCH", "@original", EmbedList(0))

\* lines 261-267: deleteResponse()
CallDeleteResponse ==
  Followup("deleteResponse", "DELETE", "@original", NoEmbeds)

\* lines 337-357: editMessage(msg, data) for data that holds no embed; data
\* is sent as it is given
CallEditMessage ==
  \E m \in Targets : Followup("editMessage", "PATCH", m, NoEmbeds)

\* lines 363-370: deleteMessage(msg)
CallDeleteMessage ==
  \E m \in Targets : Followup("deleteMessage", "DELETE", m, NoEmbeds)

\* The request of a follow-up method completes: the method resolves, or
\* rejects with the error of the request
WebhookCompletes ==
  /\ call.op \in FollowupOps
  /\ \E ok \in BOOLEAN :
       results' = Append(results,
                         [op |-> call.op,
                          outcome |-> IF ok THEN "ok" ELSE "failed",
                          posted |-> 1, args |-> call.args])
  /\ responded' = RespondedAfterFollowup
  /\ call' = NoCall
  /\ UNCHANGED <<posts, webhook, data, resolved, lookup>>
  /\ UNCHANGED <<cvars, ovars>>

NextFollowup ==
  \/ CallRespond
  \/ CallAcknowledge
  \/ CallReply
  \/ PostCompletes
  \/ CallSend
  \/ CallEditResponse
  \/ CallDeleteResponse
  \/ CallEditMessage
  \/ CallDeleteMessage
  \/ WebhookCompletes

SpecFollowup == Init /\ [][NextFollowup]_vars

\* --------------------------------------------------- Interaction: options

\* Number of top-level options of an Interaction.
MaxOptions == 2

\* SlashCommandOptionType of an option
OptionKinds == {"STRING", "USER", "ROLE", "CHANNEL"}
\* Names of the options sent with the Interaction, and names looked up
OptionNames == {"target", "other"}
QueryNames == {"target", "missing"}

\* What option(name) returns, and the value of an option: undefined, a raw
\* value such as an id, or an entry of a resolved table
NoValue == [t |-> "undefined", v |-> ""]
Raw(x) == [t |-> "raw", v |-> x]
Entity(e) == [t |-> "entity", v |-> e]

OptionValues == {NoValue, Raw("123"), Raw("456")}
OptionSet == [name : OptionNames, type : OptionKinds, value : OptionValues]
OptionLists == UNION {[1..n -> OptionSet] : n \in 0..MaxOptions}
DataOpts == {NoData, DataNoOptions} \cup {Data(l) : l \in OptionLists}

\* Values of Interaction.resolved
ResolvedOpts ==
  { NoResolved,
    [users |-> {<<"123", "alice">>}, roles |-> {}, channels |-> {}],
    [users |-> {}, roles |-> {<<"123", "admin">>},
     channels |-> {<<"456", "general">>}],
    [users |-> {<<"123", "alice">>, <<"456", "bob">>},
     roles |-> {<<"123", "admin">>, <<"456", "guest">>},
     channels |-> {<<"123", "general">>, <<"456", "random">>}] }

\* lines 141-143: get options(): this.data?.options ?? []
Options(d) == IF d.defined /\ d.hasOptions THEN d.options ELSE <<>>

RECURSIVE FindLast(_, _)
\* Mutant of Find: the last option of that name
FindLast(list, name) ==
  IF list = <<>> THEN <<>>
  ELSE IF list[Len(list)].name = name THEN <<list[Len(list)]>>
       ELSE FindLast(SubSeq(list, 1, Len(list) - 1), name)

RECURSIVE Find(_, _)
\* line 147: this.options.find((e) => e.name === name): the first option of
\* that name as a one-element list, or the empty list for undefined
Find(list, name) ==
  IF list = <<>> THEN <<>>
  ELSE IF Head(list).name = name THEN <<Head(list)>>
       ELSE Find(Tail(list), name)

\* Mutant of Entry: the key itself is returned
EntryLiteral(dict, key) == Raw(key)

\* lines 150, 152, 154: dict[key], undefined when the Dict has no such key
Entry(dict, key) ==
  IF \E p \in dict : p[1] = key
  THEN Entity((CHOOSE p \in dict : p[1] = key)[2])
  ELSE NoValue

\* lines 146-156: option(name)
Option(name) ==
  LET found == Find(Options(data), name)
  IN  IF found = <<>> THEN NoValue
      ELSE LET op == found[1]
           IN  IF op.value = NoValue THEN NoValue
               ELSE IF op.type = "USER"
               THEN Entry(resolved.users, op.value.v)
               ELSE IF op.type = "ROLE"
               THEN Entry(resolved.roles, op.value.v)
               ELSE IF op.type = "CHANNEL"
               THEN Entry(resolved.channels, op.value.v)
               ELSE op.value

\* lines 146-156: a handler calls option(name)
CallOption ==
  /\ \E name \in QueryNames :
       lookup' = [name |-> name, result |-> Option(name)]
  /\ UNCHANGED <<responded, posts, call, results, webhook, data, resolved>>
  /\ UNCHANGED <<cvars, ovars>>

\* An Interaction constructed from any payload data and resolved tables
InitOption ==
  /\ InitCommandClient
  /\ InitClient("undefined", "undefined")
  /\ \E d \in DataOpts, r \in ResolvedOpts : InitInteraction(d, r)

NextOption == CallOption

SpecOption == InitOption /\ [][NextOption]_vars

\* ----------------------------------------------------------- Client.connect

\* Values of a token and of the gateway intents: undefined or given
TokenOpts == {"undefined", "A", "B"}
IntentsOpts == {"undefined", "I", "J"}

\* client.ts lines 291-294: the token connect() uses, "throw" when it throws
\* 'No Token Provided'
ConnectToken(token, stored) ==
  IF token = "undefined" /\ stored # "undefined" THEN stored
  ELSE IF stored = "undefined" /\ token # "undefined" THEN token
  ELSE "throw"

\* client.ts lines 295-304: the intents connect() uses, "throw" when it
\* throws 'No Gateway Intents were provided'
ConnectIntents(intents, stored) ==
  IF intents # "undefined" /\ stored # "undefined" THEN intents
  ELSE IF intents = "undefined" /\ stored # "undefined" THEN stored
  ELSE IF intents # "undefined" /\ stored = "undefined" THEN intents
  ELSE "throw"

\* client.ts lines 290-311: connect(token, intents) up to its await
Connect ==
  /\ connection.outcome # "connecting"
  /\ \E token \in TokenOpts, intents \in IntentsOpts :
       LET t == ConnectToken(token, client.token)
           i == ConnectIntents(intents, client.intents)
           made == [token |-> token, intents |-> intents,
                    stored |-> client.token,
                    storedIntents |-> client.intents, outcome |-> "none"]
       IN  IF t = "throw"
           THEN /\ connection' = [made EXCEPT !.outcome = "noToken"]
                /\ UNCHANGED client
           ELSE IF i = "throw"
           THEN /\ connection' = [made EXCEPT !.outcome = "noIntents"]
                /\ client' = [client EXCEPT !.token = t]
           ELSE /\ connection' = [made EXCEPT !.outcome = "connecting"]
                /\ client' = [token |-> t,
                              intents |-> IF client.intents = "undefined"
                                          THEN i ELSE client.intents,
                              restToken |-> t]
  /\ UNCHANGED <<pvars, tvars, ovars, ivars>>

\* client.ts lines 306-312: the gateway connects and 'ready' arrives, or the
\* connection fails and connect() rejects
ConnectCompletes ==
  /\ connection.outcome = "connecting"
  /\ \E ok \in BOOLEAN :
       connection' =
         [connection EXCEPT !.outcome = IF ok THEN "ready" ELSE "failed"]
  /\ UNCHANGED client
  /\ UNCHANGED <<pvars, tvars, ovars, ivars>>

\* A Client constructed with or without a token and intents
InitConnect ==
  /\ InitCommandClient
  /\ \E t \in TokenOpts, i \in IntentsOpts : InitClient(t, i)
  /\ InitInteraction(NoData, NoResolved)

NextConnect ==
  \/ Connect
  \/ ConnectCompletes

SpecConnect == InitConnect /\ [][NextConnect]_vars

\* ------------------------------------------------------------------ claims

Range(seq) == {seq[i] : i \in 1..Len(seq)}

\* The number of events of that name emitted for the message
CountEvents(name) == Cardinality({i \in 1..Len(events) : events[i].name = name})

\* The message was dropped and nothing was observed: no event, no hook
SilentDrop == pc = "done" /\ events = <<>> /\ hooks = <<>>

\* C1: on one Interaction, while every outbound call of a sequence of
\* sequentially awaited respond() / acknowledge() / reply() calls succeeds,
\* the first call and only the first succeeds and issues the one
\* interaction-callback POST; every later call fails with the 'already
\* responded' error and issues no outbound call.
C1_OnlyFirstResponds ==
  (\A i \in 1..Len(results) : results[i].outcome # "failed") =>
    /\ \A i \in 1..Len(results) :
         /\ results[i].outcome = IF i = 1 THEN "ok" ELSE "alreadyResponded"
         /\ results[i].posted = IF i = 1 THEN 1 ELSE 0
    /\ Len(posts) = IF results # <<>> \/ call # NoCall THEN 1 ELSE 0
    /\ (results # <<>> => call = NoCall)

C1_Witness ==
  /\ Len(results) = 3
  /\ results[1].outcome = "ok" /\ results[1].op = "respond"
  /\ results[2].outcome = "alreadyResponded" /\ results[2].op = "acknowledge"
  /\ results[3].outcome = "alreadyResponded" /\ results[3].op = "reply"
  /\ Len(posts) = 1

\* C2: a message whose author, channel or guild is reported blacklisted, or
\* whose author is a bot while allowBots is false, or that matches no prefix,
\* or that names an unregistered command, is dropped with no event of any
\* kind and no hook invocation.
C2_SilentDrops ==
  /\ (rd.stage = "botFilter" /\ rd.bot /\ ~rd.allowBots) => SilentDrop
  /\ (rd.stage \in {"userBlacklist", "channelBlacklist", "guildBlacklist"}
        /\ rd.result = "true") => SilentDrop
  /\ (rd.stage = "resolve"
        /\ (\A i \in 1..Len(rd.candidates) :
              ~StartsWith(rd.content, rd.candidates[i]))
        /\ ~(rd.mentionPrefix /\ (StartsWith(rd.content, mention)
                                    \/ StartsWith(rd.content, nickMention))))
       => SilentDrop
  /\ (rd.stage = "resolve" /\ ~rd.found) => SilentDrop

C2_Witness ==
  /\ rd.stage = "guildBlacklist"
  /\ rd.result = "true"
  /\ queries = <<"isUserBlacklisted", "isChannelBlacklisted",
                 "isGuildBlacklisted">>
  /\ SilentDrop

\* The owner-only flag in effect: the command's when it is defined, else the
\* category's
OwnerOnlyInEffect ==
  \/ rd.f.ownerOnly = "true"
  \/ /\ rd.f.ownerOnly = "undefined"
     /\ category = "category"
     /\ rd.f.catOwnerOnly = "true"

\* C3: a message that reaches the scope checks for a command whose effective
\* owner-only flag is true, from an author who is not an owner, never runs a
\* hook and emits exactly one event, commandOwnerOnly.
C3_OwnerOnlyVeto ==
  (rd.stage = "scope" /\ OwnerOnlyInEffect /\ ~Includes(owners, msg.author))
    => /\ pc = "done"
       /\ events = <<Event("commandOwnerOnly", <<>>)>>
       /\ hooks = <<>>

C3_Witness ==
  /\ rd.stage = "scope"
  /\ rd.f.ownerOnly = "undefined"
  /\ rd.f.catOwnerOnly = "true"
  /\ category = "category"
  /\ msg.author = 2
  /\ events = <<Event("commandOwnerOnly", <<>>)>>

\* C4: when the execute hook throws, the after-hook is not invoked, exactly
\* one commandError event is emitted, carrying the exception of execute,
\* processMessage resolves, and the dispatcher accepts the next message.
C4_ExecuteThrowCaught ==
  (rd.stage = "execute" /\ rd.result = "throw")
    => /\ pc = "done"
       /\ outcome = "resolved"
       /\ hooks = <<"before", "execute">>
       /\ CountEvents("commandError") = 1
       /\ events[Len(events)] = Event("commandError", <<"execute">>)
       /\ (errorCount < MaxErrors => ENABLED ReceiveMessage)

\* execute throws for a message processed after an earlier failure
C4_Witness ==
  /\ rd.stage = "execute"
  /\ rd.result = "throw"
  /\ errorCount = 2
  /\ outcome = "resolved"

\* C5: a before-hook that returns exactly false ends the invocation: neither
\* execute nor after runs and no commandError is emitted; for any other value
\* it returns, undefined included, the execute hook is invoked.
C5_BeforeFalseAborts ==
  /\ (rd.stage = "before" /\ rd.result = "false")
       => /\ pc = "done"
          /\ hooks = <<"before">>
          /\ CountEvents("commandError") = 0
  /\ (rd.stage = "before" /\ rd.result \in {"true", "undefined", "0"})
       => /\ pc = "execute"
          /\ hooks = <<"before", "execute">>

C5_Witness ==
  /\ rd.stage = "before"
  /\ rd.result = "false"
  /\ pc = "done"
  /\ events = <<Event("commandUsed", <<>>)>>

\* The permission event emitted by the check that ran last, if any
Emitted(name) == events # <<>> /\ events[Len(events)].name = name

\* C6: in a guild, when the command or its category declares required bot
\* permissions, the required set is the command's bot permissions if
\* present, else the category's, united with the 'all permissions' value;
\* commandBotMissingPermissions is emitted iff the bot lacks one of them, its
\* list is exactly the permissions of the set that the bot lacks, and then
\* no hook runs.
C6_BotPermissionsUnion ==
  (rd.stage = "botPerms" /\ msg.guild # 0
     /\ (rd.botPermissions # Undefined \/ rd.catPermissions # Undefined))
    => LET own == IF rd.botPermissions # Undefined THEN rd.botPermissions
                  ELSE rd.catPermissions
           all == IF rd.cmdPermissions # Undefined THEN rd.cmdPermissions
                  ELSE rd.catPermissions
           required == Range(own.v) \cup Range(all.v)
           lacking == {q \in required : q \notin rd.held}
           emitted == Emitted("commandBotMissingPermissions")
       IN  /\ emitted <=> lacking # {}
           /\ emitted => /\ Range(events[Len(events)].arg) = lacking
                          /\ pc = "done"
                          /\ hooks = <<>>

\* C7: the same for the user permissions and the invoking member:
\* commandUserMissingPermissions is emitted iff the member lacks one of the
\* command's user permissions (else the category's) united with the 'all
\* permissions' value, it carries exactly the lacking ones, and then no hook
\* runs.
C7_UserPermissionsUnion ==
  (rd.stage = "userPerms" /\ msg.guild # 0
     /\ (rd.userPermissions # Undefined \/ rd.catUserPermissions # Undefined))
    => LET own == IF rd.userPermissions # Undefined THEN rd.userPermissions
                  ELSE rd.catUserPermissions
           required == Range(own.v) \cup Range(rd.all.v)
           lacking == {q \in required : q \notin rd.member.perms}
           emitted == Emitted("commandUserMissingPermissions")
       IN  /\ emitted <=> lacking # {}
           /\ emitted => /\ Range(events[Len(events)].arg) = lacking
                          /\ pc = "done"
                          /\ hooks = <<>>

\* The id the whitelist check that ran last looks for, and whether the check
\* applies to the message (the guild whitelist applies in a guild only)
WhitelistId ==
  CASE rd.stage = "wlGuild" -> msg.guild
    [] rd.stage = "wlChannel" -> msg.channel
    [] rd.stage = "wlUser" -> msg.author

WhitelistApplies ==
  /\ rd.stage \in {"wlGuild", "wlChannel", "wlUser"}
  /\ (rd.stage = "wlGuild" => msg.guild # 0)

WhitelistPassed == pc \in {"wlGuild.ok", "wlChannel.ok", "wlUser.ok"}

\* C8: for each whitelist kind, a command that defines its own list passes
\* the message iff the id is in that list, whatever the list of the category;
\* a command that defines none, under a category that defines one, passes it
\* iff the id is in the list of the category; a drop emits no event.
C8_CommandWhitelistFirst ==
  WhitelistApplies =>
    /\ rd.cmdList # Undefined
         => (WhitelistPassed <=> Includes(rd.cmdList.v, WhitelistId))
    /\ (rd.cmdList = Undefined /\ rd.catList # Undefined)
         => (WhitelistPassed <=> Includes(rd.catList.v, WhitelistId))
    /\ ~WhitelistPassed => SilentDrop

C8_Witness ==
  /\ rd.stage = "wlUser"
  /\ rd.cmdList = Arr(<<1>>)
  /\ rd.catList = Arr(<<2>>)
  /\ msg.author = 1
  /\ pc = "wlUser.ok"

EmptyOrUndefined(list) == list = Undefined \/ list.v = <<>>

\* C9 as stated: when the whitelist of a kind is empty or undefined at both
\* levels, no message is dropped by the check of that kind.
C9_EmptyOrUndefinedUnrestricted ==
  (WhitelistApplies /\ EmptyOrUndefined(rd.cmdList)
     /\ EmptyOrUndefined(rd.catList))
    => WhitelistPassed

\* C9 as amended: when the whitelist of a kind is undefined at both levels,
\* no message is dropped by the check of that kind.
C9_UndefinedUnrestricted ==
  (rd.stage \in {"wlGuild", "wlChannel", "wlUser"}
     /\ rd.cmdList = Undefined /\ rd.catList = Undefined)
    => WhitelistPassed

C9_Witness ==
  /\ rd.stage = "wlChannel"
  /\ category = "category"
  /\ rd.cmdList = Undefined
  /\ rd.catList = Undefined
  /\ pc = "wlChannel.ok"

\* The flag of the command when it is defined, else the flag of the category
InEffect(cmdFlag, catFlag) ==
  \/ cmdFlag = "true"
  \/ cmdFlag = "undefined" /\ category = "category" /\ catFlag = "true"

OwnerViolated ==
  InEffect(rd.f.ownerOnly, rd.f.catOwnerOnly) /\ ~Includes(owners, msg.author)
GuildViolated == InEffect(rd.f.guildOnly, rd.f.catGuildOnly) /\ msg.guild = 0
DmViolated == InEffect(rd.f.dmOnly, rd.f.catDmOnly) /\ msg.guild # 0
NsfwViolated ==
  rd.f.nsfw = "true" /\ msg.guild # 0 /\ rd.f.channelNsfw # "true"

\* C10: a message that violates one or more of the scope flags emits exactly
\* one event, that of the first violated flag in the order owner-only,
\* guild-only, dm-only, nsfw, and is dropped: no later check, no commandUsed,
\* no hook.
C10_FirstViolatedFlag ==
  (rd.stage = "scope"
     /\ (OwnerViolated \/ GuildViolated \/ DmViolated \/ NsfwViolated))
    => /\ pc = "done"
       /\ hooks = <<>>
       /\ events = << Event(IF OwnerViolated THEN "commandOwnerOnly"
                            ELSE IF GuildViolated THEN "commandGuildOnly"
                            ELSE IF DmViolated THEN "commandDmOnly"
                            ELSE "commandNSFW", <<>>) >>

\* owner-only and guild-only are violated by the same message
C10_Witness ==
  /\ rd.stage = "scope"
  /\ OwnerViolated
  /\ GuildViolated
  /\ events = <<Event("commandOwnerOnly", <<>>)>>
  /\ pc = "done"

\* The message reached the nsfw check: no earlier scope flag vetoed it
ReachedNsfwCheck ==
  rd.stage = "scope" /\ ~OwnerViolated /\ ~GuildViolated /\ ~DmViolated

\* C11 as stated: a message that reaches the nsfw check for a command flagged
\* nsfw-required is vetoed with commandNSFW iff it is in a guild and its
\* channel is not marked nsfw; a message with no guild is never vetoed by the
\* nsfw check.
C11_NsfwGuildOnly ==
  (ReachedNsfwCheck /\ rd.f.nsfw = "true")
    => /\ Emitted("commandNSFW")
            <=> (msg.guild # 0 /\ rd.f.channelNsfw # "true")
       /\ msg.guild = 0 => ~Emitted("commandNSFW")

\* C11 as amended: a message that reaches the nsfw check for a command
\* flagged nsfw-required is vetoed with commandNSFW, and dropped with no
\* hook, iff it has no guild or its channel is not marked nsfw; a command not
\* flagged is never vetoed by the nsfw check.
C11_NsfwVetoesDm ==
  ReachedNsfwCheck
    => /\ Emitted("commandNSFW")
            <=> /\ rd.f.nsfw = "true"
                /\ (msg.guild = 0 \/ rd.f.channelNsfw # "true")
       /\ Emitted("commandNSFW")
            => (pc = "done" /\ hooks = <<>> /\ Len(events) = 1)

\* a direct message for an nsfw-required command is vetoed
C11_Witness ==
  /\ ReachedNsfwCheck
  /\ rd.f.nsfw = "true"
  /\ msg.guild = 0
  /\ events = <<Event("commandNSFW", <<>>)>>
  /\ pc = "done"

\* The arity requirement of the command is not met by the parsed arguments
ArityViolated ==
  \/ rd.args.t = "boolean" /\ rd.args.v = 1 /\ Len(parsed.args) = 0
  \/ rd.args.t = "number" /\ Len(parsed.args) < rd.args.v

\* C12: an argument-arity violation (a boolean requirement with zero parsed
\* arguments, or a numeric minimum that is not met) emits commandMissingArgs
\* and is non-fatal: commandUsed is emitted after it and the before-hook is
\* invoked for that invocation.
C12_ArityNonFatal ==
  (rd.stage = "args" /\ ArityViolated)
    => /\ events = <<Event("commandMissingArgs", <<>>),
                     Event("commandUsed", <<>>)>>
       /\ hooks = <<"before">>
       /\ pc = "before"

\* The invocation passed every check of processMessage: a hook was invoked
PassedGate == hooks # <<>>

\* C13: an invocation that passes the gate has emitted exactly one
\* commandUsed by the time the before-hook is invoked (it is then the latest
\* event), and still shows exactly one, ahead of any commandError, whatever
\* the outcome; an invocation the gate dropped, silently or with a veto
\* event, shows no commandUsed.
C13_CommandUsedOnce ==
  /\ CountEvents("commandUsed") = IF PassedGate THEN 1 ELSE 0
  /\ pc = "before" => events[Len(events)] = Event("commandUsed", <<>>)
  /\ \A i \in 1..Len(events) :
       events[i].name = "commandError"
         => \E j \in 1..(i - 1) : events[j].name = "commandUsed"

\* a failed invocation that had an arity notice: one commandUsed between them
C13_Witness ==
  /\ pc = "done"
  /\ rd.stage = "execute"
  /\ rd.result = "throw"
  /\ events = <<Event("commandMissingArgs", <<>>),
                Event("commandUsed", <<>>),
                Event("commandError", <<"execute">>)>>

\* C14: for every message and every behaviour of the configured callbacks
\* (blacklist predicates, prefix providers, permission lookup, hooks), those
\* that throw or reject included, processMessage never rejects to its caller.
C14_NeverRejects == outcome # "rejected"

\* The candidates the resolved text begins with
MatchingCandidates ==
  {c \in Range(rd.candidates) : StartsWith(rd.content, c)}

\* C15: when the text begins with a candidate prefix, the resolver selects a
\* candidate the text begins with, no matching candidate is longer, and it
\* is the only candidate with these two properties, so that resolving the
\* same input again selects the same prefix.
C15_LongestPrefix ==
  (rd.stage = "resolve" /\ MatchingCandidates # {})
    => /\ rd.usedPrefix.t = "string"
       /\ rd.usedPrefix.v[1] \in MatchingCandidates
       /\ \A c \in MatchingCandidates :
            /\ Len(c) <= Len(rd.usedPrefix.v[1])
            /\ Len(c) = Len(rd.usedPrefix.v[1]) => c = rd.usedPrefix.v[1]

\* prefixes ["!", "!!"] and the text "!!p" give "!!"
C15_Witness ==
  /\ rd.stage = "resolve"
  /\ rd.candidates = << <<"!">>, <<"!", "!">> >>
  /\ rd.content = <<"!", "!", "p">>
  /\ rd.usedPrefix = Str(<<"!", "!">>)
  /\ pc = "resolve.ok"

\* The calls of send() made so far with their arguments: the completed ones
\* and the one that awaits its request
SendCalls ==
  {[args |-> results[i].args, outcome |-> results[i].outcome,
    posted |-> results[i].posted] :
     i \in {j \in 1..Len(results) : results[j].op = "send"}}
  \cup (IF call.op = "send"
        THEN {[args |-> call.args, outcome |-> "pending", posted |-> 1]}
        ELSE {})

\* The follow-up requests that the calls made so far account for
FollowupRequests ==
  Cardinality({i \in 1..Len(results) :
                 results[i].op \in FollowupOps /\ results[i].posted = 1})
    + (IF call.op \in FollowupOps THEN 1 ELSE 0)

\* The options object of a call of send: the first argument when it is an
\* object, else the second
OptionsGiven(args) ==
  IF args.text.t \in {"options", "embed"} THEN args.text ELSE args.option

\* The call hands over more than 10 embeds to send: its embeds list, which
\* is what is sent unless a single embed is given, has more than 10 elements
ManyEmbedsGiven(args) ==
  LET o == OptionsGiven(args)
  IN  o.t = "options" /\ ~o.embed /\ o.embeds.t = "array" /\ o.embeds.n > 10

NothingGiven(args) == args.text.t = "undefined" /\ args.option.t = "undefined"

C17_NothingToSend ==
  \A i \in 1..Len(results) :
    results[i].op = "send"
      => /\ NothingGiven(results[i].args)
              => /\ results[i].outcome = "missingContent"
                 /\ results[i].posted = 0
                 /\ Len(webhook) = FollowupRequests
         /\ results[i].outcome = "missingContent"
              => NothingGiven(results[i].args)

\* send() failed on an Interaction on which nothing else was called
C17_Witness ==
  /\ results = <<[op |-> "send", outcome |-> "missingContent", posted |-> 0,
                  args |-> [text |-> NoArg, option |-> NoArg]]>>
  /\ webhook = <<>>
  /\ posts = <<>>
  /\ call = NoCall

\* C18: send() issues its request whenever its validation passes, whatever
\* responded is and however many calls were made before; no follow-up
\* method is refused because of responded; and responded is true exactly
\* when a respond(), acknowledge() or reply() call has succeeded, whatever
\* follow-up methods were called.
C18_FollowupsIgnoreResponded ==
  /\ \A c \in SendCalls :
       c.posted = 1 <=> (~NothingGiven(c.args) /\ ~ManyEmbedsGiven(c.args))
  /\ \A i \in 1..Len(results) :
       results[i].op \in FollowupOps
         => results[i].outcome # "alreadyResponded"
  /\ (call = NoCall /\ Len(results) < MaxCalls)
       => /\ ENABLED CallSend
          /\ ENABLED CallEditResponse
          /\ ENABLED CallDeleteResponse
          /\ ENABLED CallEditMessage
          /\ ENABLED CallDeleteMessage
  /\ responded <=> \E i \in 1..Len(results) :
                     results[i].op \in RespondOps /\ results[i].outcome = "ok"

\* send() was requested before and after the response, and responded is
\* still set after the later send and an edit
C18_Witness ==
  /\ Len(results) = 3
  /\ results[1].op = "send" /\ results[1].outcome = "ok"
  /\ results[2].op = "reply" /\ results[2].outcome = "ok"
  /\ results[3].op = "send" /\ results[3].outcome = "ok"
  /\ responded
  /\ Len(webhook) = 2

\* The top-level options of the Interaction that have the name looked up
Named == {i \in 1..Len(data.options) : data.options[i].name = lookup.name}

\* The first of them
FirstNamed == data.options[CHOOSE i \in Named : \A j \in Named : i <= j]

\* option(name) has been called
LookedUp == lookup # NoLookup

\* C19: option(name) returns, and what it returns is undefined when no
\* top-level option has that name or the first option of that name carries
\* no value, also for an Interaction with no data, with data that has no
\* option list, or with an empty option list.
C19_OptionNoValue ==
  LookedUp
    => /\ lookup.result.t \in {"undefined", "raw", "entity"}
       /\ (~data.defined \/ ~data.hasOptions \/ Named = {})
            => lookup.result = NoValue
       /\ (data.defined /\ data.hasOptions /\ Named # {}
             /\ FirstNamed.value = NoValue)
            => lookup.result = NoValue

\* the first option named target has no value and the second has one
C19_Witness ==
  /\ lookup.name = "target"
  /\ data = Data(<<[name |-> "target", type |-> "STRING", value |-> NoValue],
                   [name |-> "target", type |-> "STRING",
                    value |-> Raw("123")]>>)
  /\ lookup.result = NoValue

\* The table of resolved that holds the entities of that kind
TableOf(kind) ==
  CASE kind = "USER" -> resolved.users
    [] kind = "ROLE" -> resolved.roles
    [] kind = "CHANNEL" -> resolved.channels

\* C20: when the first top-level option of the name looked up has a value,
\* option(name) returns, for the kinds user, role and channel, the entry
\* that the resolved table of that kind holds under the raw value (nothing
\* when the table has no such key) and never the raw value itself, and for
\* every other kind the raw value unchanged; a lookup leaves the resolved
\* tables and the data of the Interaction as they were.
C20_OptionResolves ==
  /\ [](LookedUp /\ data.defined /\ data.hasOptions /\ Named # {}
          /\ FirstNamed.value # NoValue
        => LET op == FirstNamed
           IN  IF op.type \in {"USER", "ROLE", "CHANNEL"}
               THEN /\ lookup.result.t \in {"entity", "undefined"}
                    /\ \A e \in {"alice", "bob", "admin", "guest",
                                 "general", "random"} :
                         lookup.result = Entity(e)
                           <=> <<op.value.v, e>> \in TableOf(op.type)
               ELSE lookup.result = op.value)
  /\ [][lookup' # lookup => (resolved' = resolved /\ data' = data)]_vars

\* the user option of raw value "123" gives the user held under "123",
\* where the roles table has another entry under the same key
C20_Witness ==
  /\ lookup.name = "target"
  /\ Len(data.options) = 2
  /\ data.options[1] = [name |-> "other", type |-> "ROLE",
                        value |-> Raw("123")]
  /\ data.options[2] = [name |-> "target", type |-> "USER",
                        value |-> Raw("123")]
  /\ <<"123", "admin">> \in resolved.roles
  /\ lookup.result = Entity("alice")

\* A respond() call, made directly or by acknowledge() or reply(), awaits
\* its POST
Responding == call.op \in RespondOps

\* C21: the type of the payload respond() sends is the type given when one is
\* given; else the plain channel-message type when withSource is false; else
\* (withSource true or not given) the with-source channel-message type.
C21_ResponseTypeSelection ==
  Responding
    => /\ posts[Len(posts)].type = call.payload.type
       /\ call.given.type # "undefined"
            => call.payload.type = call.given.type
       /\ (call.given.type = "undefined" /\ call.given.withSource = "false")
            => call.payload.type = "CHANNEL_MESSAGE"
       /\ (call.given.type = "undefined" /\ call.given.withSource # "false")
            => call.payload.type = "CHANNEL_MESSAGE_WITH_SOURCE"

\* respond() with neither type nor withSource sends the with-source type
C21_Witness ==
  /\ call.op = "respond"
  /\ call.given.type = "undefined"
  /\ call.given.withSource = "undefined"
  /\ posts = <<[type |-> "CHANNEL_MESSAGE_WITH_SOURCE"]>>

\* Bit k of the number n is set
Bit(n, k) == (n \div (2 ^ k)) % 2 = 1

\* The numbers given as data.flags
FlagsGiven == Range(call.given.flags.v)

\* C22: the flags of a payload that has data have exactly these bits: the
\* ephemeral bit (bit 6) when ephemeral or the deprecated temp is true, and
\* every bit of every number given as flags, whether flags is one number or
\* a collection; so the flags are 0 when none of these is given.
C22_FlagsBitwiseOr ==
  (Responding /\ call.payload.hasData)
    => /\ call.payload.flags \in 0..255
       /\ \A k \in 0..7 :
            Bit(call.payload.flags, k)
              <=> \/ /\ k = 6
                     /\ (call.given.ephemeral = "true"
                           \/ call.given.temp = "true")
                  \/ \E n \in FlagsGiven : Bit(n, k)

\* the deprecated temp and a raw number 4 give 64 | 4
C22_Witness ==
  /\ call.op = "respond"
  /\ call.given.ephemeral = "false"
  /\ call.given.temp = "true"
  /\ call.given.flags = Num(4)
  /\ call.payload.hasData
  /\ call.payload.flags = 68

\* C23: a message received outside a guild by a client whose allowDMs is
\* false never has a hook run for it.
C23_DmsNotAllowed == (msg.guild = 0 /\ ~allowDMs) => hooks = <<>>

\* C24: connect() fails with 'No Token Provided' only when no token is
\* available, neither as its argument nor stored in the client: whenever
\* the argument, the stored token or both are given it does not fail so.
C24_TokenFromEitherSource ==
  connection.outcome = "noToken"
    <=> /\ connection.outcome # "none"
        /\ connection.token = "undefined"
        /\ connection.stored = "undefined"

\* ------------------------------------------------------------ C25

\* the checks made before the prefix is resolved, the steps that resolve the
\* prefix and the command, the checks made on the command, the hook calls
EarlyChecks ==
  {"botFilter", "userBlacklist", "channelBlacklist", "guildBlacklist"}
ResolveSteps == {"userPrefix", "guildPrefix", "usedPrefix", "parse", "fetch"}
CommandChecks ==
  {"wlGuild", "wlChannel", "wlUser", "scope", "botPerms", "userPerms", "args"}
HookCalls == {"before", "execute", "after"}

\* step s was taken for the message before its i-th step
TakenBefore(s, i) == \E j \in 1..(i - 1) : trace[j] = s

\* the gate checks a message in this message's context has to pass
ChecksRequired ==
  (EarlyChecks \ (IF msg.guild = 0 THEN {"guildBlacklist"} ELSE {}))
    \cup CommandChecks

\* C25 as stated: every check of the gate, the bot filter and the blacklist
\* predicates included, is evaluated only after the prefix has been resolved
\* and the command looked up, and a hook is called only after the gate.
C25_GateAfterResolution ==
  \A i \in DOMAIN trace :
    /\ trace[i] \in EarlyChecks \cup CommandChecks
         => TakenBefore("usedPrefix", i) /\ TakenBefore("fetch", i)
    /\ trace[i] \in HookCalls => \A c \in ChecksRequired : TakenBefore(c, i)

\* C25, amended: the bot filter and the blacklist predicates are evaluated
\* first, before any prefix source is consulted; the prefix is resolved and
\* the command looked up after them; the whitelist, scope, permission and
\* arity checks are evaluated only after the lookup; and a hook is called
\* only after every check of the gate has been evaluated.
C25_StageOrder ==
  \A i \in DOMAIN trace :
    /\ trace[i] \in EarlyChecks
         => \A s \in ResolveSteps \cup CommandChecks \cup HookCalls :
              ~TakenBefore(s, i)
    /\ trace[i] \in ResolveSteps
         => /\ \A c \in ChecksRequired \cap EarlyChecks : TakenBefore(c, i)
            /\ \A s \in CommandChecks \cup HookCalls : ~TakenBefore(s, i)
    /\ trace[i] \in CommandChecks
         => /\ TakenBefore("usedPrefix", i) /\ TakenBefore("fetch", i)
            /\ \A h \in HookCalls : ~TakenBefore(h, i)
    /\ trace[i] \in HookCalls => \A c \in ChecksRequired : TakenBefore(c, i)

\* a guild message whose command ran all three hooks
C25_Witness ==
  /\ msg.guild # 0
  /\ pc = "done"
  /\ hooks = <<"before", "execute", "after">>
  /\ trace[1] = "botFilter"

\* ------------------------------------------------------------ C26

\* the provider callbacks in the order of lines 132-165, for this message
CallbackOrder ==
  IF msg.guild = 0
  THEN <<"isUserBlacklisted", "isChannelBlacklisted", "getUserPrefix">>
  ELSE <<"isUserBlacklisted", "isChannelBlacklisted", "isGuildBlacklisted",
         "getUserPrefix", "getGuildPrefix">>

\* the steps at which a provider callback resolved (or threw)
CallbackSteps ==
  {"userBlacklist", "channelBlacklist", "guildBlacklist", "userPrefix",
   "guildPrefix"}

\* callbacks invoked for the message and not yet resolved
Outstanding ==
  Len(queries) - Cardinality({i \in DOMAIN trace : trace[i] \in CallbackSteps})

\* the prefixes a source yields
Yields(r) == IF r.t \in {"string", "array"} THEN Range(r.v) ELSE {}

\* one callback at a time, in the fixed order, none after a blacklisting
Sequential ==
  /\ Outstanding \in {0, 1}
  /\ Outstanding = 1
       <=> pc \in {"userBlacklist", "channelBlacklist", "guildBlacklist",
                   "userPrefix", "guildPrefix"}
  /\ Len(queries) <= Len(CallbackOrder)
  /\ queries = SubSeq(CallbackOrder, 1, Len(queries))
  /\ (rd.stage \in {"userBlacklist", "channelBlacklist", "guildBlacklist"}
        /\ rd.result = "true")
       => /\ pc = "done"
          /\ queries[Len(queries)]
               = CASE rd.stage = "userBlacklist" -> "isUserBlacklisted"
                   [] rd.stage = "channelBlacklist" -> "isChannelBlacklisted"
                   [] rd.stage = "guildBlacklist" -> "isGuildBlacklisted"
  \* the global prefixes are in the list when getUserPrefix is awaited
  /\ pc = "userPrefix" => prefix # <<>> /\ Range(prefix) = Yields(rd.prefix)
  \* the candidates have no duplicates and are the prefixes gathered
  /\ rd.stage = "resolve"
       => /\ Range(rd.unique) = Range(rd.candidates)
          /\ \A i, j \in DOMAIN rd.unique :
               rd.unique[i] = rd.unique[j] => i = j

\* a prefix source that resolves adds what it yields to what was gathered
Gathers ==
  /\ (pc \in {"userPrefix", "guildPrefix"} /\ pc' # "done")
       => Range(prefix') = Range(prefix) \cup Yields(rd'.result)
  /\ pc = "resolve" => Range(rd'.candidates) = Range(prefix)

\* C26: for one message at most one provider callback is outstanding at any
\* time; the callbacks are invoked in the order user, channel, guild
\* blacklist, then user prefix, guild prefix, each after the previous one
\* resolved, and none after a predicate reported blacklisted; the global
\* prefixes are taken before the user-scoped and those before the
\* guild-scoped ones; the candidates are the union of the three sources with
\* duplicates removed.
C26_ProvidersSequential == []Sequential /\ [][Gathers]_vars

\* a guild message whose three sources yielded a prefix more than once
C26_Witness ==
  /\ rd.stage = "resolve"
  /\ msg.guild # 0
  /\ Len(queries) = 5
  /\ Len(rd.unique) < Len(rd.candidates)

\* ------------------------------------------------------------ C27

\* some candidate prefix begins the text
CandidateMatches ==
  \E i \in DOMAIN rd.candidates : StartsWith(rd.content, rd.candidates[i])

\* C27: when a candidate prefix begins the text the used prefix is a
\* candidate, whatever mentionPrefix is and whether or not the text begins
\* with a mention; when none does and mentionPrefix is enabled the used
\* prefix is the plain mention if the text begins with it, else the nickname
\* mention if the text begins with that; when neither begins the text, or no
\* candidate matched and mentionPrefix is disabled, processing has stopped
\* with no event and no hook.
C27_MentionPrefix ==
  rd.stage = "resolve" =>
    /\ CandidateMatches
         => /\ rd.usedPrefix.t = "string"
            /\ rd.usedPrefix.v[1] \in Range(rd.candidates)
    /\ (~CandidateMatches /\ rd.mentionPrefix)
         => rd.usedPrefix =
              IF StartsWith(rd.content, mention)
              THEN [t |-> "string", v |-> <<mention>>]
              ELSE IF StartsWith(rd.content, nickMention)
              THEN [t |-> "string", v |-> <<nickMention>>]
              ELSE [t |-> "undefined", v |-> <<>>]
    /\ (~CandidateMatches /\ ~rd.mentionPrefix) => rd.usedPrefix.t = "undefined"
    /\ rd.usedPrefix.t = "undefined"
         => pc = "done" /\ outcome = "resolved" /\ events = <<>> /\ hooks = <<>>

\* the command was found behind a nickname mention
C27_Witness ==
  /\ rd.stage = "resolve"
  /\ pc = "resolve.ok"
  /\ rd.usedPrefix.t = "string"
  /\ rd.usedPrefix.v[1] = nickMention

\* a candidate begins a text that begins with a mention: it is the prefix
C27_WitnessCandidate ==
  /\ rd.stage = "resolve"
  /\ CandidateMatches
  /\ rd.mentionPrefix
  /\ StartsWith(rd.content, mention)

\* ------------------------------------------------------------ C28

\* the steps of the hooks, among the steps taken for the message
HookSteps == {i \in DOMAIN trace : trace[i] \in HookCalls}
AfterCalls == {i \in DOMAIN trace : trace[i] = "after"}

\* C28: execute is invoked only when the before-hook has just completed
\* without throwing and without returning false; the after-hook is invoked
\* only when execute has just completed without throwing, at most once, and
\* exactly once when processing has ended after execute completed; it is
\* handed the dispatch context and the value execute resolved to; on the
\* Aborted path (before returned false) and the Failed paths (before or
\* execute threw) it is not invoked.
C28_LifecycleOrder ==
  /\ \A i \in DOMAIN trace :
       /\ trace[i] = "execute" => i > 1 /\ trace[i - 1] = "before.done"
       /\ trace[i] = "after" => i > 1 /\ trace[i - 1] = "execute.done"
       /\ trace[i] = "before.done" => TakenBefore("before", i)
       /\ trace[i] = "execute.done" => TakenBefore("execute", i)
  /\ Cardinality(AfterCalls) <= 1
  /\ (\E i \in DOMAIN trace : trace[i] = "execute.done")
       <=> Cardinality(AfterCalls) = 1
  /\ hooks = [k \in 1..Cardinality(HookSteps) |->
               trace[CHOOSE i \in HookSteps :
                       Cardinality({j \in HookSteps : j <= i}) = k]]
  /\ (rd.stage = "execute" /\ rd.result = "ok")
       => rd.afterArgs
            = [ctx |-> [name |-> parsed.name, args |-> parsed.args,
                        message |-> msg],
               result |-> rd.value]
  /\ (rd.stage = "before" /\ rd.result \in {"false", "throw"})
       => pc = "done" /\ hooks = <<"before">>
  /\ (rd.stage = "execute" /\ rd.result = "throw")
       => pc = "done" /\ hooks = <<"before", "execute">>

\* execute resolved to a value and the after-hook was called with it
C28_Witness ==
  /\ rd.stage = "execute"
  /\ rd.result = "ok"
  /\ rd.value = "x"
  /\ hooks = <<"before", "execute", "after">>
  /\ trace[Len(trace)] = "after"

\* ------------------------------------------------------------ C29

\* responded is false until an interaction-callback POST has been issued
StartsFalse == posts = <<>> => ~responded

\* a step that changes responded completes the POST of respond(),
\* acknowledge() or reply() and changes it from false to true
OnlyRespondSets ==
  responded' # responded
    => /\ ~responded /\ responded'
       /\ call.op \in {"respond", "acknowledge", "reply"}
       /\ call' = [op |-> "none"]
       /\ Len(results') = Len(results) + 1
       /\ results'[Len(results')].outcome = "ok"

\* no step resets responded
NeverReset == responded => responded'

\* C29: responded is false on a fresh Interaction; only the completion of
\* respond(), called directly or through acknowledge() or reply(), changes
\* it, from false to true; no operation, follow-ups included, changes it
\* back to false.
C29_RespondedMonotone ==
  []StartsFalse /\ [][OnlyRespondSets /\ NeverReset]_vars

\* responded is still true after follow-ups of every kind have completed
\* and a further respond() has been refused
C29_Witness ==
  /\ responded
  /\ Len(results) >= 3
  /\ results[1].op \in {"respond", "acknowledge", "reply"}
  /\ results[1].outcome = "ok"
  /\ \E i \in 2..Len(results) :
       results[i].op \in {"deleteResponse", "deleteMessage"}
         /\ results[i].outcome = "ok"
  /\ \E i \in 2..Len(results) : results[i].outcome = "alreadyResponded"

\* ------------------------------------------------------------ C30

RECURSIVE Alone(_, _, _)
\* a message processed with nothing else running: what it reads, in order,
\* gives where it stands and the events and hook calls made for it
Alone(task, inputs, out) ==
  IF inputs = <<>>
  THEN [pc |-> task.pc, outcome |-> task.outcome, out |-> out]
  ELSE LET step == TaskStep(task, Head(inputs))
       IN  Alone([pc |-> step.pc, guild |-> step.guild,
                  outcome |-> step.outcome, inputs |-> <<>>],
                 Tail(inputs), out \o step.out)

FailedPosts == {i \in DOMAIN results : results[i].outcome = "failed"}

\* C31: whatever the interleaving of respond() calls on one Interaction, two
\* calls started before either POST completed included, at most one
\* interaction-callback POST is issued for it; a POST that failed is not
\* counted, so that a retry after a failed respond() is not a violation.
C31_AtMostOneInitialResponse == Len(posts) - Cardinality(FailedPosts) <= 1

\* ------------------------------------------------------------ C32

\* the completed calls whose POST succeeded
Succeeded == {i \in DOMAIN results : results[i].outcome = "ok"}

\* C32: a respond() whose POST fails has issued that POST and fails with its
\* error, leaving responded false: responded is true exactly when some POST
\* has completed successfully; a call is rejected as already responded only
\* after such a success, so a call that follows nothing but failures issues
\* a new POST: every call that was not rejected has issued one.
C32_FailedPostLeavesUnresponded ==
  /\ responded <=> Succeeded # {}
  /\ \A i \in DOMAIN results :
       /\ results[i].outcome = "failed" => results[i].posted = 1
       /\ results[i].outcome = "alreadyResponded"
            <=> \E j \in Succeeded : j < i
  /\ Len(posts)
       = Cardinality({i \in DOMAIN results : results[i].posted = 1})
           + (IF call.op = "none" THEN 0 ELSE 1)

\* the first respond() failed in its POST; the second one posted again and
\* succeeded
C32_Witness ==
  /\ Len(results) = 2
  /\ results[1].outcome = "failed"
  /\ results[2].outcome = "ok"
  /\ Len(posts) = 2
  /\ responded

====
